---------------------------- MODULE Spec2Model ----------------------------
(***************************************************************************)
(* A model of the BLUR redaction core (src/blur_app/core):                 *)
(*   - rules.py          the rule engine (apply_rules and its matchers)    *)
(*   - utils.py          sanitize_filename, safe_write_atomic              *)
(*   - processor_txt.py, processor_docx.py   the document processors       *)
(*   - cleaner_docx.py   the structural cleaner                            *)
(* Text is a sequence of one-character strings.  A compiled pattern is a   *)
(* sequence of alternatives, an alternative a sequence of character        *)
(* classes (sets of characters), each matching exactly one character: the  *)
(* fragment of Python's re that re.escape'd literals, keyword alternations *)
(* and fixed-width classes such as \d need.                                *)
(***************************************************************************)
EXTENDS Integers, Sequences, FiniteSets, TLC

VARIABLES
    \* ---- one apply_rules call (rules.py) ----
    text,            \* the call's input text
    playbook,        \* the call's playbook
    dry_run,         \* the call's dry_run flag
    pc,              \* position in apply_rules
    agenda,          \* rules still to apply, in the order of the loops
    protected_text,  \* the working text
    counter,         \* _apply_allowlist's counter
    placeholders,    \* the placeholder map, in insertion order
    report,          \* the RuleMatchReport being accumulated
    applied,         \* history: the rule ids applied so far, in order
    restored,        \* the text returned
    \* ---- the file system and one safe_write_atomic call (utils.py) ----
    fs,              \* the files: path -> content
    fs0,             \* history: the files when the call began
    w_pc,            \* position in safe_write_atomic
    w_target,        \* target_path
    w_data,          \* data
    w_tmp,           \* the temporary file's path
    observed,        \* history: what a concurrent reader saw at target_path
    \* ---- one _accept_revisions call (cleaner_docx.py) ----
    x_tree,          \* the element tree being edited in place
    x_tree0,         \* history: the tree as parsed
    x_pc,            \* position in _accept_revisions
    x_pass,          \* which of the four tags the loops have reached
    x_todo,          \* the xpath result still to iterate over
    \* ---- one clean_docx_parts or _apply_rules_to_parts call ----
    d_call,          \* which of the two functions is running
    d_parts,         \* the parts argument: a list of [name, data] in dict order
    d_out,           \* cleaned / updated_parts
    d_aggregate,     \* _apply_rules_to_parts' aggregate report
    d_contrib,       \* history: what each part added to the aggregate
    d_pc,            \* position in the function
    d_i,             \* the loop's position in parts.items()
    \* ---- one process_txt or process_docx call and the audit sink ----
    p_kind,          \* "txt" for process_txt, "docx" for process_docx
    p_input,         \* input_path: [dir, stem, suffix]
    p_outdir,        \* output_dir
    p_pc,            \* position in the function
    p_input_bytes,   \* input_bytes
    p_redacted,      \* redacted_text, or updated_parts
    p_report,        \* report
    p_output_bytes,  \* output_bytes (None until assigned)
    p_output_path,   \* output_path (None until assigned)
    p_result,        \* the result returned
    audit,           \* the audit sink: the records logged, in order
    logged_after     \* history: the output was in place when the record went

\* One sanitize_filename call
VARIABLES
    s_name,          \* name
    s_pc,            \* position in the function
    s_result         \* the name returned (None until then)

\* The hot folder and the HotFolderManager workers polling it
VARIABLES
    h_cfg,           \* config: enabled, processed_dir and error_dir set or
                     \* not, file_types
    h_fs,            \* the files of input_dir, output_dir, processed_dir and
                     \* error_dir: <<directory, name>> -> file
    h_workers,       \* the workers that run
    h_pc,            \* each worker's position in process_once
    h_todo,          \* each worker's rest of sorted(input_dir.iterdir())
    h_path,          \* each worker's path.name
    h_success,       \* each worker's status.success_count
    h_failure,       \* each worker's status.failure_count
    h_last,          \* each worker's status.last_processed
    h_polls,         \* history: the process_once calls each worker has begun
    h_acquired,      \* history: the files each worker has acquired
    h_held,          \* history: the input file each worker holds
    h_invoked,       \* history: the processor calls that returned, by input
                     \* file
    h_called,        \* history: a processor took the file the worker holds
                     \* and returned
    h_routed         \* history: how the last file each worker finished was
                     \* counted and where it went

engine_vars == <<text, playbook, dry_run, pc, agenda, protected_text,
                 counter, placeholders, report, applied, restored>>

write_vars == <<fs, fs0, w_pc, w_target, w_data, w_tmp, observed>>

xml_vars == <<x_tree, x_tree0, x_pc, x_pass, x_todo>>

parts_vars == <<d_call, d_parts, d_out, d_aggregate, d_contrib, d_pc, d_i>>

proc_vars == <<p_kind, p_input, p_outdir, p_pc, p_input_bytes, p_redacted,
               p_report, p_output_bytes, p_output_path, p_result, audit,
               logged_after>>

util_vars == <<s_name, s_pc, s_result>>

hot_vars == <<h_cfg, h_fs, h_workers, h_pc, h_todo, h_path, h_success, h_failure,
              h_last, h_polls, h_acquired, h_held, h_invoked, h_called, h_routed>>

vars == <<engine_vars, write_vars, xml_vars, parts_vars, proc_vars, util_vars, hot_vars>>

non_engine_vars == <<write_vars, xml_vars, parts_vars, proc_vars, util_vars, hot_vars>>

non_write_vars == <<engine_vars, xml_vars, parts_vars, proc_vars, util_vars, hot_vars>>

non_xml_vars == <<engine_vars, write_vars, parts_vars, proc_vars, util_vars, hot_vars>>

non_parts_vars == <<engine_vars, write_vars, xml_vars, proc_vars, util_vars, hot_vars>>

-----------------------------------------------------------------------------
(* Bounds of the model *)

MaxTextLen == 2
MaxRules == 2

MaxNodes == 4

MaxParts == 2

MaxNameLen == 4

MaxFiles == 2

MaxPolls == 2

-----------------------------------------------------------------------------
(* Characters and strings *)

Alphabet == {"a", "1"}

DigitChars == {"0", "1", "2", "3", "4", "5", "6", "7", "8", "9"}

DigitChar(d) ==
    CASE d = 0 -> "0" [] d = 1 -> "1" [] d = 2 -> "2" [] d = 3 -> "3"
      [] d = 4 -> "4" [] d = 5 -> "5" [] d = 6 -> "6" [] d = 7 -> "7"
      [] d = 8 -> "8" [] OTHER -> "9"

\* str(n) for a natural number
RECURSIVE Decimal(_)
Decimal(n) ==
    IF n < 10 THEN <<DigitChar(n)>>
    ELSE Decimal(n \div 10) \o <<DigitChar(n % 10)>>

\* str.lower() on one character (the letters the model uses)
Lower(c) ==
    CASE c = "A" -> "a" [] c = "B" -> "b" [] c = "D" -> "d" [] c = "E" -> "e"
      [] c = "I" -> "i" [] c = "L" -> "l" [] c = "O" -> "o" [] c = "R" -> "r"
      [] c = "S" -> "s" [] c = "T" -> "t" [] c = "U" -> "u" [] c = "W" -> "w"
      [] OTHER -> c

RECURSIVE Concat(_)
Concat(ss) == IF ss = <<>> THEN <<>> ELSE Head(ss) \o Concat(Tail(ss))

Repeat(s, n) == Concat([k \in 1..n |-> s])

\* re.escape(s) compiled: each character matches itself
Literal(s) == [k \in 1..Len(s) |-> {s[k]}]

\* One character against one class, under re.IGNORECASE or not
ClassMatch(cls, c, ci) ==
    IF ci THEN \E x \in cls : Lower(x) = Lower(c) ELSE c \in cls

AltMatchesAt(alt, s, i, ci) ==
    /\ i + Len(alt) - 1 <= Len(s)
    /\ \A k \in 1..Len(alt) : ClassMatch(alt[k], s[i + k - 1], ci)

\* The first alternative from the j-th on that matches at i (0: none): a|b
\* tries a first.  After an empty match at i the scan resumes at i and must
\* advance (noEmpty).
FirstAlt(alts, s, i, ci, noEmpty) ==
    LET hits == {j \in 1..Len(alts) :
                    /\ AltMatchesAt(alts[j], s, i, ci)
                    /\ (noEmpty => Len(alts[j]) > 0)}
    IN  IF hits = {} THEN 0 ELSE CHOOSE j \in hits : \A h \in hits : j <= h

\* pattern.finditer(s): the leftmost non-overlapping matches from position i
RECURSIVE FindFrom(_, _, _, _, _)
FindFrom(alts, s, i, ci, noEmpty) ==
    IF i > Len(s) + 1 THEN <<>>
    ELSE LET j == FirstAlt(alts, s, i, ci, noEmpty)
         IN  IF j = 0 THEN FindFrom(alts, s, i + 1, ci, FALSE)
             ELSE LET n == Len(alts[j])
                  IN  <<[pos |-> i, len |-> n]>>
                      \o FindFrom(alts, s, i + n, ci, n = 0)

FindAll(alts, s, ci) == FindFrom(alts, s, 1, ci, FALSE)

MatchText(s, m) == SubSeq(s, m.pos, m.pos + m.len - 1)

\* pattern.sub: s with match k replaced by reps[k]
RECURSIVE Splice(_, _, _, _, _)
Splice(s, i, matches, reps, k) ==
    IF k > Len(matches) THEN SubSeq(s, i, Len(s))
    ELSE SubSeq(s, i, matches[k].pos - 1) \o reps[k]
         \o Splice(s, matches[k].pos + matches[k].len, matches, reps, k + 1)

SubAll(s, matches, reps) == Splice(s, 1, matches, reps, 1)

\* str.replace(old, new)
StrReplace(s, old, new) ==
    LET ms == FindAll(<<Literal(old)>>, s, FALSE)
    IN  SubAll(s, ms, [k \in 1..Len(ms) |-> new])

\* The number of non-overlapping occurrences of the literal p in s
Occurrences(p, s) == Len(FindAll(<<Literal(p)>>, s, FALSE))

Contains(s, p) == \E i \in 1..(Len(s) - Len(p) + 1) : SubSeq(s, i, i + Len(p) - 1) = p

-----------------------------------------------------------------------------
(* The policy model (playbooks.py) *)

RULE_TYPES == {"allowlist", "dictionary_entities", "regex_patterns", "keyword_list"}

RULE_ACTIONS == {"MASK", "REPLACE", "REMOVE"}

\* A Rule.  A replacement_template of <<>> stands for None and for "": the code
\* tests it with `or`, which treats both alike.  A template is a sequence of
\* characters and of the fields "{rule_name}" and "{rule_id}".  A dictionary is
\* a sequence of [key, value] in insertion order; a patterns entry is
\* [pattern, case_insensitive], its pattern <<>> standing for a missing or
\* empty one.
Rule(id, nm, type, en, prio, act, tmpl, pats, phr, dict, kws, ci) ==
    [rule_id |-> id, name |-> nm, rule_type |-> type, enabled |-> en,
     priority |-> prio, action |-> act, replacement_template |-> tmpl,
     patterns |-> pats, phrases |-> phr, dictionary |-> dict,
     keywords |-> kws, case_insensitive |-> ci]

Playbook(mode, mask, rules) ==
    [redaction_mode |-> mode, mask_char |-> mask, rules |-> rules]

\* The characters of the rule ids the model uses
IdChars(id) ==
    CASE id = "al1" -> <<"a", "l", "1">>
      [] id = "al2" -> <<"a", "l", "2">>
      [] id = "dc1" -> <<"d", "c", "1">>
      [] id = "rx1" -> <<"r", "x", "1">>
      [] id = "rx2" -> <<"r", "x", "2">>
      [] id = "kw1" -> <<"k", "w", "1">>
      [] id = "kw2" -> <<"k", "w", "2">>
      [] OTHER -> <<"k", "w", "3">>

-----------------------------------------------------------------------------
(* The rule engine (rules.py) *)

PLACEHOLDER_PREFIX ==
    <<"_", "_", "B", "L", "U", "R", "_", "A", "L", "L", "O", "W", "L", "I", "S", "T", "_">>

\* f"{PLACEHOLDER_PREFIX}{counter}__"
PlaceholderToken(n) == PLACEHOLDER_PREFIX \o Decimal(n) \o <<"_", "_">>

EmptyReport ==
    [total_matches |-> 0, matches_by_rule_type |-> <<>>, matches_by_rule_id |-> <<>>]

\* d[k] = d.get(k, 0) + n
DictAdd(d, k, n) ==
    [x \in (DOMAIN d) \cup {k} |->
        (IF x \in DOMAIN d THEN d[x] ELSE 0) + (IF x = k THEN n ELSE 0)]

\* sorted(rules, key=priority): stable, ascending
RECURSIVE SortedByPriority(_)
SortedByPriority(rules) ==
    IF rules = <<>> THEN <<>>
    ELSE LET first == CHOOSE i \in 1..Len(rules) :
                        \A j \in 1..Len(rules) :
                           \/ rules[i].priority < rules[j].priority
                           \/ (rules[i].priority = rules[j].priority /\ i <= j)
             rest == [k \in 1..(Len(rules) - 1) |->
                         IF k < first THEN rules[k] ELSE rules[k + 1]]
         IN  <<rules[first]>> \o SortedByPriority(rest)

RulesByTypeDescending(pb, rule_type) ==
    LET sel == SelectSeq(pb.rules, LAMBDA r : r.rule_type = rule_type /\ r.enabled)
        asc == SortedByPriority(sel)
    IN  [k \in 1..Len(asc) |-> asc[Len(asc) + 1 - k]]

RulesByType(pb, rule_type) ==
    SortedByPriority(
        SelectSeq(pb.rules, LAMBDA r : r.rule_type = rule_type /\ r.enabled))

\* The order in which apply_rules' loops reach the rules
Agenda(pb) ==
    RulesByType(pb, "allowlist") \o RulesByType(pb, "dictionary_entities")
    \o RulesByType(pb, "regex_patterns") \o RulesByType(pb, "keyword_list")

RegisterMatch(rep, rule, count) ==
    IF count <= 0 THEN rep
    ELSE [total_matches |-> rep.total_matches + count,
          matches_by_rule_type |->
              DictAdd(rep.matches_by_rule_type, rule.rule_type, count),
          matches_by_rule_id |->
              DictAdd(rep.matches_by_rule_id, rule.rule_id, count)]

\* template.format(rule_name=rule.name, rule_id=rule.rule_id)
Format(tmpl, rule) ==
    Concat([k \in 1..Len(tmpl) |->
               IF tmpl[k] = "{rule_name}" THEN rule.name
               ELSE IF tmpl[k] = "{rule_id}" THEN IdChars(rule.rule_id)
               ELSE <<tmpl[k]>>])

\* The template as written, its fields not filled in
Unformatted(tmpl) ==
    Concat([k \in 1..Len(tmpl) |->
               IF tmpl[k] = "{rule_name}"
                 THEN <<"{", "r", "u", "l", "e", "_", "n", "a", "m", "e", "}">>
               ELSE IF tmpl[k] = "{rule_id}"
                 THEN <<"{", "r", "u", "l", "e", "_", "i", "d", "}">>
               ELSE <<tmpl[k]>>])

DefaultReplaceTemplate == <<"[", "B", "L", "U", "R", "R", "E", "D", ":", "{rule_name}", "]">>

DefaultMaskToken == <<"[", "B", "L", "U", "R", "R", "E", "D", "]">>

\* A policy that never reads the rule's template for REPLACE
ReplacementForMatchWithoutTemplate(match_text, rule, pb) ==
    IF rule.action = "REMOVE" THEN <<>>
    ELSE IF rule.action = "REPLACE" THEN Format(DefaultReplaceTemplate, rule)
    ELSE IF pb.redaction_mode = "SAME_LENGTH_MASK" THEN
        Repeat(IF pb.mask_char # <<>> THEN pb.mask_char ELSE <<"*">>, Len(match_text))
    ELSE IF rule.replacement_template # <<>> THEN Unformatted(rule.replacement_template)
    ELSE DefaultMaskToken

ReplacementForMatch(match_text, rule, pb) ==
    IF rule.action = "REMOVE" THEN <<>>
    ELSE IF rule.action = "REPLACE" THEN
        Format(IF rule.replacement_template # <<>> THEN rule.replacement_template
               ELSE DefaultReplaceTemplate, rule)
    ELSE IF pb.redaction_mode = "SAME_LENGTH_MASK" THEN
        Repeat(IF pb.mask_char # <<>> THEN pb.mask_char ELSE <<"*">>, Len(match_text))
    ELSE IF rule.replacement_template # <<>> THEN Unformatted(rule.replacement_template)
    ELSE DefaultMaskToken

\* compiled.sub(lambda m: _replacement_for_match(m.group(0), rule, playbook), s)
SubByPolicy(s, ms, rule, pb) ==
    SubAll(s, ms, [k \in 1..Len(ms) |-> ReplacementForMatch(MatchText(s, ms[k]), rule, pb)])

\* _apply_dictionary: st = [text, report], over the items from the k-th on
RECURSIVE DictionaryFrom(_, _, _, _, _)
DictionaryFrom(st, rule, pb, dry, k) ==
    IF k > Len(rule.dictionary) THEN st
    ELSE LET target == rule.dictionary[k].key
             replacement == rule.dictionary[k].value
             ms == FindAll(<<Literal(target)>>, st.text, rule.case_insensitive)
             rep == IF ms # <<>> THEN RegisterMatch(st.report, rule, Len(ms))
                    ELSE st.report
             updated ==
                 IF ms = <<>> \/ dry THEN st.text
                 ELSE IF rule.action = "REMOVE"
                   THEN SubAll(st.text, ms, [i \in 1..Len(ms) |-> <<>>])
                 ELSE IF rule.action = "REPLACE"
                   THEN SubAll(st.text, ms, [i \in 1..Len(ms) |-> replacement])
                 ELSE SubByPolicy(st.text, ms, rule, pb)
         IN  DictionaryFrom([text |-> updated, report |-> rep], rule, pb, dry, k + 1)

ApplyDictionary(txt, rule, pb, rep, dry) ==
    DictionaryFrom([text |-> txt, report |-> rep], rule, pb, dry, 1)

\* _apply_regex_patterns, over the entries from the k-th on
RECURSIVE RegexFrom(_, _, _, _, _)
RegexFrom(st, rule, pb, dry, k) ==
    IF k > Len(rule.patterns) THEN st
    ELSE LET entry == rule.patterns[k]
         IN  IF entry.pattern = <<>> THEN RegexFrom(st, rule, pb, dry, k + 1)
             ELSE LET ci == rule.case_insensitive \/ entry.case_insensitive
                      ms == FindAll(entry.pattern, st.text, ci)
                      rep == IF ms # <<>> THEN RegisterMatch(st.report, rule, Len(ms))
                             ELSE st.report
                      updated == IF ms = <<>> \/ dry THEN st.text
                                 ELSE SubByPolicy(st.text, ms, rule, pb)
                  IN  RegexFrom([text |-> updated, report |-> rep], rule, pb, dry, k + 1)

ApplyRegexPatterns(txt, rule, pb, rep, dry) ==
    RegexFrom([text |-> txt, report |-> rep], rule, pb, dry, 1)

ApplyKeywords(txt, rule, pb, rep, dry) ==
    IF rule.keywords = <<>> THEN [text |-> txt, report |-> rep]
    ELSE LET alts == [k \in 1..Len(rule.keywords) |-> Literal(rule.keywords[k])]
             ms == FindAll(alts, txt, rule.case_insensitive)
         IN  IF ms = <<>> THEN [text |-> txt, report |-> rep]
             ELSE [text |-> IF dry THEN txt ELSE SubByPolicy(txt, ms, rule, pb),
                   report |-> RegisterMatch(rep, rule, Len(ms))]

\* _apply_rule: [text, report] after one rule
ApplyRule(txt, rule, pb, rep, dry) ==
    IF rule.rule_type = "dictionary_entities" THEN ApplyDictionary(txt, rule, pb, rep, dry)
    ELSE IF rule.rule_type = "regex_patterns" THEN ApplyRegexPatterns(txt, rule, pb, rep, dry)
    ELSE IF rule.rule_type = "keyword_list" THEN ApplyKeywords(txt, rule, pb, rep, dry)
    ELSE [text |-> txt, report |-> rep]

\* _apply_allowlist, one rule's phrases from the k-th on:
\* st = [text, counter, placeholders]
RECURSIVE AllowPhrasesFrom(_, _, _)
AllowPhrasesFrom(st, rule, k) ==
    IF k > Len(rule.phrases) THEN st
    ELSE LET n == st.counter + 1
             ph == PlaceholderToken(n)
         IN  AllowPhrasesFrom(
                 [text |-> StrReplace(st.text, rule.phrases[k], ph),
                  counter |-> n,
                  placeholders |-> Append(st.placeholders,
                                          [token |-> ph, original |-> rule.phrases[k]])],
                 rule, k + 1)

\* _apply_allowlist, one rule's patterns from the k-th on: every match gets a
\* placeholder of its own
RECURSIVE AllowPatternsFrom(_, _, _)
AllowPatternsFrom(st, rule, k) ==
    IF k > Len(rule.patterns) THEN st
    ELSE LET entry == rule.patterns[k]
         IN  IF entry.pattern = <<>> THEN AllowPatternsFrom(st, rule, k + 1)
             ELSE LET ci == rule.case_insensitive \/ entry.case_insensitive
                      ms == FindAll(entry.pattern, st.text, ci)
                      toks == [i \in 1..Len(ms) |-> PlaceholderToken(st.counter + i)]
                  IN  AllowPatternsFrom(
                          [text |-> SubAll(st.text, ms, toks),
                           counter |-> st.counter + Len(ms),
                           placeholders |-> st.placeholders \o
                               [i \in 1..Len(ms) |->
                                   [token |-> toks[i],
                                    original |-> MatchText(st.text, ms[i])]]],
                          rule, k + 1)

\* One iteration of _apply_allowlist's loop over the rules
ApplyAllowlistRule(st, rule) ==
    AllowPatternsFrom(AllowPhrasesFrom(st, rule, 1), rule, 1)

\* apply_rules' restore loop, over the placeholders from the k-th on
RECURSIVE RestoreFrom(_, _, _)
RestoreFrom(txt, phs, k) ==
    IF k > Len(phs) THEN txt
    ELSE RestoreFrom(StrReplace(txt, phs[k].token, phs[k].original), phs, k + 1)

\* apply_rules as a function: the state after the rules from the k-th on
RECURSIVE RunAgenda(_, _, _, _, _)
RunAgenda(st, rules, pb, dry, k) ==
    IF k > Len(rules) THEN st
    ELSE LET rule == rules[k]
         IN  IF rule.rule_type = "allowlist"
             THEN LET a == ApplyAllowlistRule(
                              [text |-> st.text, counter |-> st.counter,
                               placeholders |-> st.placeholders], rule)
                  IN  RunAgenda([text |-> a.text, counter |-> a.counter,
                                 placeholders |-> a.placeholders, report |-> st.report],
                                rules, pb, dry, k + 1)
             ELSE LET r == ApplyRule(st.text, rule, pb, st.report, dry)
                  IN  RunAgenda([text |-> r.text, counter |-> st.counter,
                                 placeholders |-> st.placeholders, report |-> r.report],
                                rules, pb, dry, k + 1)

\* apply_rules(text, playbook, dry_run): [text, report]
ApplyRules(txt, pb, dry) ==
    LET fin == RunAgenda([text |-> txt, counter |-> 0, placeholders |-> <<>>,
                          report |-> EmptyReport], Agenda(pb), pb, dry, 1)
    IN  [text |-> RestoreFrom(fin.text, fin.placeholders, 1), report |-> fin.report]

-----------------------------------------------------------------------------
(* Bytes and text (utils.py) *)

\* A byte is an ASCII character standing for itself or a name such as "xC3"
AsciiBytes == {"a", "1"}

ByteAlphabet == AsciiBytes \cup {"xC3", "xA9", "x98"}

ContinuationBytes == {"xA9", "x98"}

\* data.decode("utf-8"): <<>> marks a UnicodeDecodeError otherwise
RECURSIVE Utf8Valid(_)
Utf8Valid(b) ==
    IF b = <<>> THEN TRUE
    ELSE IF Head(b) \in AsciiBytes THEN Utf8Valid(Tail(b))
    ELSE IF Head(b) = "xC3" /\ Len(b) >= 2 /\ b[2] \in ContinuationBytes
      THEN Utf8Valid(Tail(Tail(b)))
    ELSE FALSE

RECURSIVE Utf8Decode(_)
Utf8Decode(b) ==
    IF b = <<>> THEN <<>>
    ELSE IF Head(b) \in AsciiBytes THEN <<Head(b)>> \o Utf8Decode(Tail(b))
    ELSE <<IF b[2] = "xA9" THEN "U+E9" ELSE "U+D8">> \o Utf8Decode(Tail(Tail(b)))

\* cp1251 has no character for byte 0x98
Cp1251Valid(b) == \A k \in 1..Len(b) : b[k] # "x98"

Cp1251Decode(b) ==
    [k \in 1..Len(b) |->
        IF b[k] = "xC3" THEN "U+413" ELSE IF b[k] = "xA9" THEN "U+A9" ELSE b[k]]

Latin1Decode(b) ==
    [k \in 1..Len(b) |->
        IF b[k] = "xC3" THEN "U+C3" ELSE IF b[k] = "xA9" THEN "U+A9"
        ELSE IF b[k] = "x98" THEN "U+98" ELSE b[k]]

\* decode_text_bytes: utf-8, then cp1251, then latin-1
DecodeTextBytes(b) ==
    IF Utf8Valid(b) THEN Utf8Decode(b)
    ELSE IF Cp1251Valid(b) THEN Cp1251Decode(b)
    ELSE Latin1Decode(b)

\* One character in UTF-8
Utf8Char(c) ==
    CASE c = "U+E9" -> <<"xC3", "xA9">>
      [] c = "U+D8" -> <<"xC3", "x98">>
      [] c = "U+413" -> <<"xD0", "x93">>
      [] c = "U+A9" -> <<"xC2", "xA9">>
      [] c = "U+C3" -> <<"xC3", "x83">>
      [] c = "U+98" -> <<"xC2", "x98">>
      [] OTHER -> <<c>>

\* encode_text: text.encode("utf-8")
EncodeText(t) == Concat([k \in 1..Len(t) |-> Utf8Char(t[k])])

\* compute_sha256_bytes, taken to be free of collisions
Sha256(content) == <<"sha256", content>>

ByteStrings == UNION { [1..n -> ByteAlphabet] : n \in 0..MaxTextLen }

-----------------------------------------------------------------------------
(* Files and safe_write_atomic (utils.py) *)

\* A path is <<directory, name>>; a file's content is a record, the same shape
\* for a plain file (its bytes) and for a zip container (its parts).
File(isZip, bytes, parts) == [zip |-> isZip, bytes |-> bytes, parts |-> parts]

PlainFile(bytes) == File(FALSE, bytes, <<>>)

\* What a reader of path p finds
ReadPath(files, p) ==
    IF p \in DOMAIN files THEN [exists |-> TRUE, content |-> files[p]]
    ELSE [exists |-> FALSE, content |-> PlainFile(<<>>)]

PutFile(files, p, c) ==
    [q \in (DOMAIN files) \cup {p} |-> IF q = p THEN c ELSE files[q]]

RemoveFile(files, p) == [q \in (DOMAIN files) \ {p} |-> files[q]]

\* The names tempfile draws from (stand-ins for tmpXXXXXXXX): a name space of
\* its own, distinct from every name the callers write to
TempNames == {<<"t", "m", "p", "1">>, <<"t", "m", "p", "2">>}

TempCandidatesInPlace(files, target) == {target}

\* NamedTemporaryFile(delete=False, dir=target.parent): a fresh name in the
\* target's directory, opened with O_EXCL, so never an existing file
TempCandidates(files, target) ==
    {<<target[1], n>> : n \in TempNames} \ DOMAIN files

Prefixes(bytes) == {SubSeq(bytes, 1, n) : n \in 0..Len(bytes)}

IdleWrite ==
    /\ fs = <<>>
    /\ fs0 = <<>>
    /\ w_pc = "idle"
    /\ w_target = <<>>
    /\ w_data = PlainFile(<<>>)
    /\ w_tmp = <<>>
    /\ observed = {}

\* target_path.parent.mkdir(parents=True, exist_ok=True)
WMkdir ==
    /\ w_pc = "mkdir"
    /\ w_pc' = "create"
    /\ UNCHANGED <<fs, fs0, w_target, w_data, w_tmp, observed>>
    /\ UNCHANGED non_write_vars

\* tempfile.NamedTemporaryFile(...): an empty file under a fresh name
WCreateTemp ==
    /\ w_pc = "create"
    /\ \E t \in TempCandidates(fs, w_target) :
          /\ fs' = PutFile(fs, t, PlainFile(<<>>))
          /\ w_tmp' = t
    /\ w_pc' = "write"
    /\ UNCHANGED <<fs0, w_target, w_data, observed>>
    /\ UNCHANGED non_write_vars

\* tmp.write(data): the buffered writer may already hand part of the data to
\* the file
WWrite ==
    /\ w_pc = "write"
    /\ \E part \in Prefixes(w_data.bytes) :
          fs' = PutFile(fs, w_tmp, PlainFile(part))
    /\ w_pc' = "flush"
    /\ UNCHANGED <<fs0, w_target, w_data, w_tmp, observed>>
    /\ UNCHANGED non_write_vars

\* tmp.flush(): the file holds all of the data
WFlush ==
    /\ w_pc = "flush"
    /\ fs' = PutFile(fs, w_tmp, w_data)
    /\ w_pc' = "fsync"
    /\ UNCHANGED <<fs0, w_target, w_data, w_tmp, observed>>
    /\ UNCHANGED non_write_vars

\* os.fsync(tmp.fileno()), temp_name = tmp.name, and the with block's close
WFsync ==
    /\ w_pc = "fsync"
    /\ w_pc' = "replace"
    /\ UNCHANGED <<fs, fs0, w_target, w_data, w_tmp, observed>>
    /\ UNCHANGED non_write_vars

\* os.replace(temp_name, target_path): the one atomic rename
WReplace ==
    /\ w_pc = "replace"
    /\ fs' = PutFile(RemoveFile(fs, w_tmp), w_target, fs[w_tmp])
    /\ w_pc' = "done"
    /\ UNCHANGED <<fs0, w_target, w_data, w_tmp, observed>>
    /\ UNCHANGED non_write_vars

\* An OSError at any step: it propagates; the with block closes the temporary
\* file and, with delete=False, leaves it where it is
WFail ==
    /\ w_pc \in {"mkdir", "create", "write", "flush", "fsync", "replace"}
    /\ w_pc' = "failed"
    /\ UNCHANGED <<fs, fs0, w_target, w_data, w_tmp, observed>>
    /\ UNCHANGED non_write_vars

\* A concurrent reader opens target_path and reads it
ReaderReads ==
    /\ w_pc # "idle"
    /\ observed' = observed \cup {ReadPath(fs, w_target)}
    /\ UNCHANGED <<fs, fs0, w_pc, w_target, w_data, w_tmp>>
    /\ UNCHANGED non_write_vars

-----------------------------------------------------------------------------
(* Element trees and _accept_revisions (cleaner_docx.py) *)

\* An lxml tree: elements are numbered 1..n, element 1 is the root.  Each
\* element has a tag, a parent (0 for None), its child elements in order, a
\* text (what precedes its first child) and a tail (what follows its end tag
\* and moves, or goes, with the element).
Tree(tags, parents, kidsOf, texts) ==
    [tag |-> tags, parent |-> parents, kids |-> kidsOf, text |-> texts]

Root == 1

REJECTED_TAGS == <<"w:del", "w:moveFrom">>

ACCEPTED_TAGS == <<"w:ins", "w:moveTo">>

RevisionTags == {"w:del", "w:moveFrom", "w:ins", "w:moveTo"}

RECURSIVE Preorder(_, _)
RECURSIVE PreorderAll(_, _)
\* Document order of the subtree of n
Preorder(tree, n) == <<n>> \o PreorderAll(tree, tree.kids[n])

PreorderAll(tree, ns) ==
    IF ns = <<>> THEN <<>>
    ELSE Preorder(tree, Head(ns)) \o PreorderAll(tree, Tail(ns))

\* tree.xpath(".//tag"): the descendants of the root with that tag, in
\* document order; the context element itself is never among them
XPathDescendants(tree, tag) ==
    SelectSeq(Tail(Preorder(tree, Root)), LAMBDA n : tree.tag[n] = tag)

Without(seq, x) == SelectSeq(seq, LAMBDA y : y # x)

\* A local variable: x is computed once and F reads the value
Bind(x, F(_)) == CHOOSE r \in {F(v) : v \in {x}} : TRUE

\* parent.index(node), counting from 1
IndexOf(seq, x) == CHOOSE k \in 1..Len(seq) : seq[k] = x

InsertAtEnd(seq, index, x) == Append(seq, x)

\* parent.insert(index, child)
InsertAt(seq, index, x) ==
    SubSeq(seq, 1, index - 1) \o <<x>> \o SubSeq(seq, index, Len(seq))

\* for child in list(node): parent.insert(index, child); index += 1
RECURSIVE InsertChildren(_, _, _)
InsertChildren(seq, index, children) ==
    IF children = <<>> THEN seq
    ELSE InsertChildren(InsertAt(seq, index, Head(children)), index + 1,
                        Tail(children))

\* parent = node.getparent(); if parent is not None: parent.remove(node)
RemoveNode(tree, node) ==
    LET parent == tree.parent[node]
    IN  IF parent = 0 THEN tree
        ELSE [tree EXCEPT !.kids[parent] = Without(@, node),
                          !.parent[node] = 0]

\* _unwrap(node): an inserted child leaves the wrapper for the parent
Unwrap(tree, node) ==
    LET parent == tree.parent[node]
        children == tree.kids[node]
        moved == {children[k] : k \in 1..Len(children)}
    IN  IF parent = 0 THEN tree
        ELSE [tree EXCEPT
                !.kids[parent] =
                    Without(InsertChildren(@, IndexOf(@, node), children), node),
                !.kids[node] = <<>>,
                !.parent = [n \in DOMAIN @ |->
                              IF n \in moved THEN parent
                              ELSE IF n = node THEN 0 ELSE @[n]]]

IdleXml ==
    /\ x_tree = Tree(<<>>, <<>>, <<>>, <<>>)
    /\ x_tree0 = Tree(<<>>, <<>>, <<>>, <<>>)
    /\ x_pc = "idle"
    /\ x_pass = 0
    /\ x_todo = <<>>

PassTags == REJECTED_TAGS \o ACCEPTED_TAGS

\* for node in tree.xpath(f".//{tag}", namespaces=NSMAP): the node list is
\* computed once, before the loop body first runs
EvalXPath ==
    /\ x_pc = "xpath"
    /\ x_todo' = XPathDescendants(x_tree, PassTags[x_pass])
    /\ x_pc' = "loop"
    /\ UNCHANGED <<x_tree, x_tree0, x_pass>>
    /\ UNCHANGED non_xml_vars

\* The body of the loops over w:del and w:moveFrom
RemoveStep ==
    /\ x_pc = "loop"
    /\ x_pass <= Len(REJECTED_TAGS)
    /\ x_todo # <<>>
    /\ x_tree' = RemoveNode(x_tree, Head(x_todo))
    /\ x_todo' = Tail(x_todo)
    /\ UNCHANGED <<x_tree0, x_pc, x_pass>>
    /\ UNCHANGED non_xml_vars

\* The body of the loops over w:ins and w:moveTo
UnwrapStep ==
    /\ x_pc = "loop"
    /\ x_pass > Len(REJECTED_TAGS)
    /\ x_todo # <<>>
    /\ x_tree' = Unwrap(x_tree, Head(x_todo))
    /\ x_todo' = Tail(x_todo)
    /\ UNCHANGED <<x_tree0, x_pc, x_pass>>
    /\ UNCHANGED non_xml_vars

\* The node list is exhausted: on to the next tag, or return
NextTag ==
    /\ x_pc = "loop"
    /\ x_todo = <<>>
    /\ IF x_pass < Len(PassTags)
         THEN x_pass' = x_pass + 1 /\ x_pc' = "xpath"
         ELSE x_pass' = x_pass /\ x_pc' = "done"
    /\ UNCHANGED <<x_tree, x_tree0, x_todo>>
    /\ UNCHANGED non_xml_vars

\* _accept_revisions as one function of the tree
RECURSIVE RemoveEach(_, _)
RemoveEach(tree, nodes) ==
    IF nodes = <<>> THEN tree
    ELSE Bind(RemoveNode(tree, Head(nodes)),
              LAMBDA t : RemoveEach(t, Tail(nodes)))

RECURSIVE UnwrapEach(_, _)
UnwrapEach(tree, nodes) ==
    IF nodes = <<>> THEN tree
    ELSE Bind(Unwrap(tree, Head(nodes)),
              LAMBDA t : UnwrapEach(t, Tail(nodes)))

RemoveTag(tree, tag) ==
    Bind(tree, LAMBDA t :
        Bind(XPathDescendants(t, tag), LAMBDA nodes : RemoveEach(t, nodes)))

UnwrapTag(tree, tag) ==
    Bind(tree, LAMBDA t :
        Bind(XPathDescendants(t, tag), LAMBDA nodes : UnwrapEach(t, nodes)))

AcceptRevisions(tree) ==
    UnwrapTag(UnwrapTag(RemoveTag(RemoveTag(tree, REJECTED_TAGS[1]),
                                  REJECTED_TAGS[2]),
                        ACCEPTED_TAGS[1]),
              ACCEPTED_TAGS[2])

-----------------------------------------------------------------------------
(* Container parts: clean_docx_parts (cleaner_docx.py) and                  *)
(* _apply_rules_to_parts (processor_docx.py)                                *)

\* A part name is a sequence of pieces, the first its leading directory and
\* the last its extension: startswith and endswith look at those.
DOCUMENT_PART == <<"word/", "document", ".xml">>

COMMENTS_PART == <<"word/", "comments", ".xml">>

CORE_PART == <<"docProps/", "core", ".xml">>

CUSTOM_PART == <<"docProps/", "custom", ".xml">>

StartsWith(name, prefix) == name[1] = prefix

EndsWith(name, suffix) == name[Len(name)] = suffix

\* The bytes of a part.  Well-formed bytes are known by the tree they parse
\* to and by whether they are, byte for byte, what etree.tostring writes for
\* that tree; bytes that are not well-formed XML are known by themselves.
XmlBytes(canonical, tree) ==
    [wf |-> TRUE, canon |-> canonical, tree |-> tree, raw |-> <<>>]

BrokenBytes(raw) ==
    [wf |-> FALSE, canon |-> FALSE, tree |-> Tree(<<>>, <<>>, <<>>, <<>>),
     raw |-> raw]

\* etree.fromstring(data): a tree, or the error raised
FromString(data) ==
    IF data.wf THEN [error |-> "none", tree |-> data.tree]
    ELSE [error |-> "XMLSyntaxError", tree |-> data.tree]

CatchesNothing(error) == FALSE

\* except etree.XMLSyntaxError
CatchesSyntaxError(error) == error = "XMLSyntaxError"

\* The elements still under the root, renumbered in document order
AttachedIn(tree, order) ==
    Tree([k \in 1..Len(order) |-> tree.tag[order[k]]],
         [k \in 1..Len(order) |->
             IF k = Root THEN 0 ELSE IndexOf(order, tree.parent[order[k]])],
         [k \in 1..Len(order) |->
             [j \in 1..Len(tree.kids[order[k]]) |->
                 IndexOf(order, tree.kids[order[k]][j])]],
         [k \in 1..Len(order) |-> tree.text[order[k]]])

Attached(tree) ==
    Bind(tree, LAMBDA t :
        Bind(Preorder(t, Root), LAMBDA order : AttachedIn(t, order)))

\* etree.tostring(tree, xml_declaration=True, encoding="UTF-8")
EtreeToString(tree) == XmlBytes(TRUE, Attached(tree))

COMMENT_TAGS == <<"w:commentRangeStart", "w:commentRangeEnd", "w:commentReference">>

\* _remove_comments
RemoveComments(tree) ==
    RemoveTag(RemoveTag(RemoveTag(tree, COMMENT_TAGS[1]), COMMENT_TAGS[2]),
              COMMENT_TAGS[3])

\* for element in tree.xpath("//*"): if element.text: element.text = ""
\* (an element without text reads back as one with empty text)
WipeAllText(tree) == [tree EXCEPT !.text = [n \in DOMAIN @ |-> <<>>]]

CORE_TAGS == <<"dc:creator", "cp:lastModifiedBy", "dcterms:created", "dcterms:modified">>

\* for node in tree.xpath(f".//{tag}"): node.text = ""
RECURSIVE WipeTags(_, _)
WipeTags(tree, tags) ==
    IF tags = <<>> THEN tree
    ELSE Bind(XPathDescendants(tree, Head(tags)), LAMBDA nodes :
           Bind([tree EXCEPT !.text = [n \in DOMAIN @ |->
                   IF \E k \in 1..Len(nodes) : nodes[k] = n THEN <<>> ELSE @[n]]],
                LAMBDA t : WipeTags(t, Tail(tags))))

WipeCoreProperties(tree) ==
    Bind(WipeAllText(tree), LAMBDA t : WipeTags(t, CORE_TAGS))

WipeCustomProperties(tree) == WipeAllText(tree)

\* cleaned[name] = data
SetPart(parts, name, data) ==
    [k \in DOMAIN parts |->
        IF parts[k].name = name THEN [name |-> name, data |-> data] ELSE parts[k]]

HasPart(parts, name) == \E k \in DOMAIN parts : parts[k].name = name

PartData(parts, name) ==
    parts[CHOOSE k \in DOMAIN parts : parts[k].name = name].data

\* One turn of clean_docx_parts' loop: what it does to cleaned
CleanTree(name, tree) ==
    LET t1 == IF StartsWith(name, "word/")
                THEN RemoveComments(AcceptRevisions(tree)) ELSE tree
        t2 == IF name = CORE_PART THEN WipeCoreProperties(t1) ELSE t1
    IN  IF name = CUSTOM_PART THEN WipeCustomProperties(t2) ELSE t2

CleanOne(cleaned, name, data) ==
    IF ~EndsWith(name, ".xml") THEN [raised |-> FALSE, parts |-> cleaned]
    ELSE Bind(FromString(data), LAMBDA parsed :
           IF parsed.error # "none"
             THEN [raised |-> ~CatchesSyntaxError(parsed.error), parts |-> cleaned]
             ELSE Bind(EtreeToString(CleanTree(name, parsed.tree)), LAMBDA out :
                    [raised |-> FALSE, parts |-> SetPart(cleaned, name, out)]))

\* _remove_comments_part
RemoveCommentsPart(parts) == SelectSeq(parts, LAMBDA p : p.name # COMMENTS_PART)

\* _merge_reports
\* A merge that stores the other count in place of the sum
MergeDictsOverwriting(target, other) ==
    [k \in (DOMAIN target) \cup (DOMAIN other) |->
        IF k \in DOMAIN other THEN other[k] ELSE target[k]]

MergeDicts(target, other) ==
    [k \in (DOMAIN target) \cup (DOMAIN other) |->
        (IF k \in DOMAIN target THEN target[k] ELSE 0)
        + (IF k \in DOMAIN other THEN other[k] ELSE 0)]

MergeReports(target, rep) ==
    [total_matches |-> target.total_matches + rep.total_matches,
     matches_by_rule_type |->
        MergeDicts(target.matches_by_rule_type, rep.matches_by_rule_type),
     matches_by_rule_id |->
        MergeDicts(target.matches_by_rule_id, rep.matches_by_rule_id)]

\* The loop over tree.xpath(".//w:t") of one part
ApplyToNode(st, n, pb, dry) ==
    IF st.tree.text[n] = <<>> THEN st
    ELSE Bind(ApplyRules(st.tree.text[n], pb, dry), LAMBDA r :
           LET change == ~dry /\ r.text # st.tree.text[n]
           IN  [tree |-> IF change THEN [st.tree EXCEPT !.text[n] = r.text]
                         ELSE st.tree,
                report |-> MergeReports(st.report, r.report),
                modified |-> st.modified \/ change])

RECURSIVE ApplyToNodes(_, _, _, _)
ApplyToNodes(st, nodes, pb, dry) ==
    IF nodes = <<>> THEN st
    ELSE Bind(ApplyToNode(st, Head(nodes), pb, dry), LAMBDA next :
           ApplyToNodes(next, Tail(nodes), pb, dry))

\* One turn of _apply_rules_to_parts' loop: what it does to updated_parts and
\* what it adds to the aggregate
ApplyOne(updated, name, data, pb, dry) ==
    IF ~StartsWith(name, "word/") \/ ~EndsWith(name, ".xml")
      THEN [raised |-> FALSE, parts |-> updated, report |-> EmptyReport]
    ELSE Bind(FromString(data), LAMBDA parsed :
           IF parsed.error # "none"
             THEN [raised |-> ~CatchesSyntaxError(parsed.error),
                   parts |-> updated, report |-> EmptyReport]
             ELSE Bind(ApplyToNodes([tree |-> parsed.tree, report |-> EmptyReport,
                                     modified |-> FALSE],
                                    XPathDescendants(parsed.tree, "w:t"), pb, dry),
                       LAMBDA fin :
                    [raised |-> FALSE,
                     parts |-> IF fin.modified
                                 THEN SetPart(updated, name, EtreeToString(fin.tree))
                                 ELSE updated,
                     report |-> fin.report]))

\* clean_docx_parts as one function: [raised, parts]
RECURSIVE CleanFrom(_, _, _)
CleanFrom(cleaned, parts, k) ==
    IF k > Len(parts)
      THEN [raised |-> FALSE, parts |-> RemoveCommentsPart(cleaned)]
    ELSE Bind(CleanOne(cleaned, parts[k].name, parts[k].data), LAMBDA r :
           IF r.raised THEN r ELSE CleanFrom(r.parts, parts, k + 1))

CleanDocxParts(parts) == CleanFrom(parts, parts, 1)

\* _apply_rules_to_parts as one function: [raised, parts, report]
RECURSIVE ApplyFrom(_, _, _, _, _, _)
ApplyFrom(updated, aggregate, parts, pb, dry, k) ==
    IF k > Len(parts)
      THEN [raised |-> FALSE, parts |-> updated, report |-> aggregate]
    ELSE Bind(ApplyOne(updated, parts[k].name, parts[k].data, pb, dry),
              LAMBDA r :
           IF r.raised THEN r
           ELSE Bind(MergeReports(aggregate, r.report), LAMBDA sum :
                  ApplyFrom(r.parts, sum, parts, pb, dry, k + 1)))

ApplyRulesToParts(parts, pb, dry) ==
    ApplyFrom(parts, EmptyReport, parts, pb, dry, 1)

IdleParts ==
    /\ d_call = "none"
    /\ d_parts = <<>>
    /\ d_out = <<>>
    /\ d_aggregate = EmptyReport
    /\ d_contrib = <<>>
    /\ d_pc = "idle"
    /\ d_i = 0

\* for name, data in parts.items(): one turn of clean_docx_parts' loop
CleanPart ==
    /\ d_pc = "clean"
    /\ d_i <= Len(d_parts)
    /\ \E r \in {CleanOne(d_out, d_parts[d_i].name, d_parts[d_i].data)} :
           /\ d_out' = r.parts
           /\ d_pc' = IF r.raised THEN "raised" ELSE d_pc
    /\ d_i' = d_i + 1
    /\ UNCHANGED <<d_call, d_parts, d_aggregate, d_contrib>>
    /\ UNCHANGED non_parts_vars

\* cleaned = _remove_comments_part(cleaned); return cleaned
CleanReturn ==
    /\ d_pc = "clean"
    /\ d_i > Len(d_parts)
    /\ d_out' = RemoveCommentsPart(d_out)
    /\ d_pc' = "done"
    /\ UNCHANGED <<d_call, d_parts, d_aggregate, d_contrib, d_i>>
    /\ UNCHANGED non_parts_vars

\* for name, data in parts.items(): one turn of _apply_rules_to_parts' loop
ApplyPart ==
    /\ d_pc = "apply"
    /\ d_i <= Len(d_parts)
    /\ \E r \in {ApplyOne(d_out, d_parts[d_i].name, d_parts[d_i].data,
                          playbook, dry_run)} :
           /\ d_out' = r.parts
           /\ d_aggregate' = MergeReports(d_aggregate, r.report)
           /\ d_contrib' = Append(d_contrib, r.report)
           /\ d_pc' = IF r.raised THEN "raised" ELSE d_pc
    /\ d_i' = d_i + 1
    /\ UNCHANGED <<d_call, d_parts>>
    /\ UNCHANGED non_parts_vars

\* return updated_parts, aggregate
ApplyReturn ==
    /\ d_pc = "apply"
    /\ d_i > Len(d_parts)
    /\ d_pc' = "done"
    /\ UNCHANGED <<d_call, d_parts, d_out, d_aggregate, d_contrib, d_i>>
    /\ UNCHANGED non_parts_vars

-----------------------------------------------------------------------------
(* File names (utils.py) *)

Letters ==
    {"a", "b", "c", "d", "e", "f", "g", "i", "l", "m", "n", "o", "p", "r", "s",
     "t", "u", "x"}

\* [A-Za-z0-9._-], as far as the characters in use go
IsSafeFilenameChar(c) == c \in Letters \cup DigitChars \cup {".", "_", "-"}

Whitespace == {" "}

\* name.strip()
RECURSIVE Strip(_)
Strip(s) ==
    IF s = <<>> THEN s
    ELSE IF Head(s) \in Whitespace THEN Strip(Tail(s))
    ELSE IF s[Len(s)] \in Whitespace THEN Strip(SubSeq(s, 1, Len(s) - 1))
    ELSE s

\* A substitution by the pattern without its +: one underscore for each
\* character
RECURSIVE SubUnsafeEachCharacter(_, _)
SubUnsafeEachCharacter(s, inRun) ==
    IF s = <<>> THEN <<>>
    ELSE IF Len(s) = 1
      THEN IF IsSafeFilenameChar(s[1]) THEN s ELSE <<"_">>
    ELSE LET h == Len(s) \div 2
         IN  SubUnsafeEachCharacter(SubSeq(s, 1, h), inRun)
               \o SubUnsafeEachCharacter(SubSeq(s, h + 1, Len(s)),
                                         ~IsSafeFilenameChar(s[h]))

\* SAFE_FILENAME_PATTERN.sub("_", s): each run of other characters becomes
\* one underscore.  inRun: the character before s is one of a run.  The text
\* is taken by halves, which keeps the evaluation shallow on long names.
RECURSIVE SubUnsafe(_, _)
SubUnsafe(s, inRun) ==
    IF s = <<>> THEN <<>>
    ELSE IF Len(s) = 1
      THEN IF IsSafeFilenameChar(s[1]) THEN s
           ELSE IF inRun THEN <<>>
           ELSE <<"_">>
    ELSE LET h == Len(s) \div 2
         IN  SubUnsafe(SubSeq(s, 1, h), inRun)
               \o SubUnsafe(SubSeq(s, h + 1, Len(s)), ~IsSafeFilenameChar(s[h]))

DEFAULT_MAX_LENGTH == 255

\* sanitize_filename(name, max_length)
SanitizeFilename(name, max_length) ==
    LET sanitized == SubUnsafe(Strip(name), FALSE)
        named == IF sanitized = <<>> THEN <<"f", "i", "l", "e">> ELSE sanitized
    IN  SubSeq(named, 1, IF Len(named) < max_length THEN Len(named) ELSE max_length)

\* No sanitize_filename call is being followed
IdleUtil ==
    /\ s_name = <<>>
    /\ s_pc = "idle"
    /\ s_result = [some |-> FALSE]

Workers == {1, 2}

\* No file finished yet
NotRouted == [invoked |-> FALSE, counted |-> "none", dir |-> "none"]

\* No hot folder is being polled
IdleHot ==
    /\ h_cfg = [enabled |-> FALSE, processed_dir |-> FALSE, error_dir |-> FALSE,
                file_types |-> {}]
    /\ h_fs = <<>>
    /\ h_workers = {}
    /\ h_pc = [w \in Workers |-> "idle"]
    /\ h_todo = [w \in Workers |-> <<>>]
    /\ h_path = [w \in Workers |-> <<>>]
    /\ h_success = [w \in Workers |-> 0]
    /\ h_failure = [w \in Workers |-> 0]
    /\ h_last = [w \in Workers |-> <<>>]
    /\ h_polls = [w \in Workers |-> 0]
    /\ h_acquired = [w \in Workers |-> 0]
    /\ h_held = [w \in Workers |-> <<>>]
    /\ h_invoked = <<>>
    /\ h_called = [w \in Workers |-> FALSE]
    /\ h_routed = [w \in Workers |-> NotRouted]

-----------------------------------------------------------------------------
(* The document processors (processor_txt.py, processor_docx.py) and the    *)
(* audit sink (audit.py)                                                    *)

None == [some |-> FALSE]

Some(v) == [some |-> TRUE, value |-> v]

\* input_path.name
PathName(path) == path.stem \o path.suffix

FsPath(path) == <<path.dir, PathName(path)>>

BLURRED == <<"_", "b", "l", "u", "r", "r", "e", "d">>

\* output_dir / f"{sanitize_filename(input_path.stem)}_blurred{input_path.suffix}"
OutputPath(output_dir, path) ==
    <<output_dir,
      SanitizeFilename(path.stem, DEFAULT_MAX_LENGTH) \o BLURRED \o path.suffix>>

\* A zip archive of the parts, in their order
ZipFile(parts) == File(TRUE, <<>>, parts)

\* bool(output_bytes): None and the empty bytes are false; an archive is never
\* empty
Truthy(opt) == opt.some /\ (opt.value.zip \/ opt.value.bytes # <<>>)

WritesOutputAlways(dry) == TRUE

\* if not dry_run:
WritesOutput(dry) == ~dry

\* AuditLogger.log(...): the row inserted
AuditRecord(input_filename, file_type, dry, rep, sha_in, sha_out) ==
    [input_filename |-> SanitizeFilename(input_filename, DEFAULT_MAX_LENGTH),
     file_type |-> file_type,
     dry_run |-> dry,
     total_matches |-> rep.total_matches,
     matches_by_category |-> rep.matches_by_rule_type,
     sha256_input |-> sha_in,
     sha256_output |-> sha_out]

IdleProc ==
    /\ p_kind = "none"
    /\ p_input = [dir |-> "", stem |-> <<>>, suffix |-> <<>>]
    /\ p_outdir = ""
    /\ p_pc = "idle"
    /\ p_input_bytes = PlainFile(<<>>)
    /\ p_redacted = <<>>
    /\ p_report = EmptyReport
    /\ p_output_bytes = None
    /\ p_output_path = None
    /\ p_result = None
    /\ audit = <<>>
    /\ logged_after = FALSE

\* process_txt up to the test of dry_run: read, decode, apply_rules
TxtCompute ==
    /\ p_kind = "txt"
    /\ p_pc = "start"
    /\ \E r \in {ApplyRules(DecodeTextBytes(fs[FsPath(p_input)].bytes),
                            playbook, dry_run)} :
          /\ p_redacted' = r.text
          /\ p_report' = r.report
    /\ p_input_bytes' = fs[FsPath(p_input)]
    /\ p_pc' = "computed"
    /\ UNCHANGED <<p_kind, p_input, p_outdir, p_output_bytes, p_output_path,
                   p_result, audit, logged_after>>
    /\ UNCHANGED <<engine_vars, write_vars, xml_vars, parts_vars, util_vars, hot_vars>>

\* process_docx up to the test of dry_run: read, open the archive (which
\* raises BadZipFile on bytes that are no archive), clean, apply the rules
DocxCompute ==
    /\ p_kind = "docx"
    /\ p_pc = "start"
    /\ p_input_bytes' = fs[FsPath(p_input)]
    /\ IF ~fs[FsPath(p_input)].zip
         THEN /\ p_pc' = "raised"
              /\ UNCHANGED <<p_redacted, p_report>>
         ELSE \E c \in {CleanDocxParts(fs[FsPath(p_input)].parts)} :
                \E r \in {ApplyRulesToParts(c.parts, playbook, dry_run)} :
                    /\ p_pc' = IF c.raised \/ r.raised THEN "raised" ELSE "computed"
                    /\ p_redacted' = r.parts
                    /\ p_report' = r.report
    /\ UNCHANGED <<p_kind, p_input, p_outdir, p_output_bytes, p_output_path,
                   p_result, audit, logged_after>>
    /\ UNCHANGED <<engine_vars, write_vars, xml_vars, parts_vars, util_vars, hot_vars>>

\* The body of "if not dry_run", up to the call of safe_write_atomic
StartWrite ==
    /\ p_pc = "computed"
    /\ WritesOutput(dry_run)
    /\ \E out \in {IF p_kind = "txt" THEN PlainFile(EncodeText(p_redacted))
                   ELSE ZipFile(p_redacted)} :
          /\ p_output_bytes' = Some(out)
          /\ w_data' = out
    /\ p_output_path' = Some(OutputPath(p_outdir, p_input))
    /\ w_target' = OutputPath(p_outdir, p_input)
    /\ w_pc' = "mkdir"
    /\ p_pc' = "writing"
    /\ UNCHANGED <<p_kind, p_input, p_outdir, p_input_bytes, p_redacted,
                   p_report, p_result, audit, logged_after>>
    /\ UNCHANGED <<fs, fs0, w_tmp, observed>>
    /\ UNCHANGED <<engine_vars, xml_vars, parts_vars, util_vars, hot_vars>>

\* safe_write_atomic raised: so does the processor, before any audit record
WriteRaised ==
    /\ p_pc = "writing"
    /\ w_pc = "failed"
    /\ p_pc' = "raised"
    /\ UNCHANGED <<p_kind, p_input, p_outdir, p_input_bytes, p_redacted,
                   p_report, p_output_bytes, p_output_path, p_result, audit,
                   logged_after>>
    /\ UNCHANGED <<engine_vars, write_vars, xml_vars, parts_vars, util_vars, hot_vars>>

\* audit_logger.log(...)
LogAudit ==
    /\ \/ p_pc = "computed" /\ ~WritesOutput(dry_run)
       \/ p_pc = "writing" /\ w_pc = "done"
    /\ audit' = Append(audit,
          AuditRecord(PathName(p_input), p_kind, dry_run, p_report,
                      Sha256(p_input_bytes),
                      IF Truthy(p_output_bytes)
                        THEN Some(Sha256(p_output_bytes.value)) ELSE None))
    /\ logged_after' =
          (p_output_path.some /\
           ReadPath(fs, p_output_path.value) = [exists |-> TRUE,
                                                content |-> p_output_bytes.value])
    /\ p_pc' = "logged"
    /\ UNCHANGED <<p_kind, p_input, p_outdir, p_input_bytes, p_redacted,
                   p_report, p_output_bytes, p_output_path, p_result>>
    /\ UNCHANGED <<engine_vars, write_vars, xml_vars, parts_vars, util_vars, hot_vars>>

\* return TextProcessResult(...) / DocxProcessResult(...)
Return ==
    /\ p_pc = "logged"
    /\ p_result' = Some([output_path |-> p_output_path, report |-> p_report,
                         output_bytes |-> p_output_bytes])
    /\ p_pc' = "returned"
    /\ UNCHANGED <<p_kind, p_input, p_outdir, p_input_bytes, p_redacted,
                   p_report, p_output_bytes, p_output_path, audit, logged_after>>
    /\ UNCHANGED <<engine_vars, write_vars, xml_vars, parts_vars, util_vars, hot_vars>>

-----------------------------------------------------------------------------
(* The inputs of an apply_rules call *)

NoPatterns == <<>>

\* \d
DigitPattern == <<<<DigitChars>>>>

RulePool ==
    { Rule("al1", <<"n">>, "allowlist", TRUE, 3, "MASK", <<>>,
           NoPatterns, << <<"a">> >>, <<>>, <<>>, FALSE),
      Rule("al2", <<"n">>, "allowlist", TRUE, 5, "MASK", <<>>,
           <<[pattern |-> <<Literal(<<"a">>)>>, case_insensitive |-> FALSE]>>,
           << <<"1">> >>, <<>>, <<>>, FALSE),
      Rule("dc1", <<"n">>, "dictionary_entities", TRUE, 4, "REPLACE", <<"#">>,
           NoPatterns, <<>>, <<[key |-> <<"a">>, value |-> <<"1">>]>>, <<>>, FALSE),
      Rule("rx1", <<"n">>, "regex_patterns", TRUE, 2, "MASK", <<>>,
           <<[pattern |-> <<>>, case_insensitive |-> FALSE],
             [pattern |-> DigitPattern, case_insensitive |-> FALSE]>>,
           <<>>, <<>>, <<>>, FALSE),
      Rule("rx2", <<"n">>, "regex_patterns", TRUE, 6, "REPLACE", <<>>,
           <<[pattern |-> <<Literal(<<"a">>)>>, case_insensitive |-> TRUE]>>,
           <<>>, <<>>, <<>>, FALSE),
      Rule("kw1", <<"n">>, "keyword_list", TRUE, 7, "REMOVE", <<>>,
           NoPatterns, <<>>, <<>>, << <<"a", "1">>, <<"a">> >>, FALSE),
      Rule("kw2", <<"n">>, "keyword_list", TRUE, 1, "REPLACE", <<"<", "{rule_id}", ">">>,
           NoPatterns, <<>>, <<>>, << <<"1">> >>, TRUE),
      Rule("kw3", <<"n">>, "keyword_list", FALSE, 0, "REMOVE", <<>>,
           NoPatterns, <<>>, <<>>, << <<"a">> >>, FALSE) }

\* Lists of distinct rules of the pool, in every order
RuleLists ==
    UNION { { rs \in [1..n -> RulePool] :
                \A i, j \in 1..n : rs[i] = rs[j] => i = j } : n \in 0..MaxRules }

Playbooks ==
    { Playbook(mode, <<"*">>, rs) :
        mode \in {"FIXED_TOKEN", "SAME_LENGTH_MASK"}, rs \in RuleLists }

\* Every text over the alphabet up to the bound, and one text that spells a
\* placeholder token
Texts ==
    UNION { [1..n -> Alphabet] : n \in 0..MaxTextLen } \cup {PlaceholderToken(1)}

-----------------------------------------------------------------------------
(* One apply_rules call, step by step *)

InitEngine ==
    /\ text \in Texts
    /\ playbook \in Playbooks
    /\ dry_run \in BOOLEAN
    /\ pc = "start"
    /\ agenda = <<>>
    /\ protected_text = <<>>
    /\ counter = 0
    /\ placeholders = <<>>
    /\ report = EmptyReport
    /\ applied = <<>>
    /\ restored = <<>>
    /\ IdleWrite
    /\ IdleXml
    /\ IdleParts
    /\ IdleProc
    /\ IdleUtil
    /\ IdleHot

\* apply_rules, lines 21-24: the locals, and the rules in the order of the loops
StartCall ==
    /\ pc = "start"
    /\ pc' = "rules"
    /\ agenda' = Agenda(playbook)
    /\ protected_text' = text
    /\ counter' = 0
    /\ placeholders' = <<>>
    /\ report' = EmptyReport
    /\ UNCHANGED <<text, playbook, dry_run, applied, restored>>
    /\ UNCHANGED non_engine_vars

\* One iteration of _apply_allowlist's loop
AllowlistStep ==
    /\ pc = "rules"
    /\ agenda # <<>>
    /\ Head(agenda).rule_type = "allowlist"
    /\ LET st == ApplyAllowlistRule(
                     [text |-> protected_text, counter |-> counter,
                      placeholders |-> placeholders], Head(agenda))
       IN  /\ protected_text' = st.text
           /\ counter' = st.counter
           /\ placeholders' = st.placeholders
    /\ applied' = Append(applied, Head(agenda).rule_id)
    /\ agenda' = Tail(agenda)
    /\ UNCHANGED <<text, playbook, dry_run, pc, report, restored>>
    /\ UNCHANGED non_engine_vars

\* One _apply_rule call of the loop over the other three groups
RuleStep ==
    /\ pc = "rules"
    /\ agenda # <<>>
    /\ Head(agenda).rule_type # "allowlist"
    /\ LET r == ApplyRule(protected_text, Head(agenda), playbook, report, dry_run)
       IN  /\ protected_text' = r.text
           /\ report' = r.report
    /\ applied' = Append(applied, Head(agenda).rule_id)
    /\ agenda' = Tail(agenda)
    /\ UNCHANGED <<text, playbook, dry_run, pc, counter, placeholders, restored>>
    /\ UNCHANGED non_engine_vars

\* The restore loop and the return
Restore ==
    /\ pc = "rules"
    /\ agenda = <<>>
    /\ restored' = RestoreFrom(protected_text, placeholders, 1)
    /\ pc' = "done"
    /\ UNCHANGED <<text, playbook, dry_run, agenda, protected_text, counter,
                   placeholders, report, applied>>
    /\ UNCHANGED non_engine_vars

NextRules == StartCall \/ AllowlistStep \/ RuleStep \/ Restore

SpecRules == InitEngine /\ [][NextRules]_vars

-----------------------------------------------------------------------------
(* One safe_write_atomic call beside a concurrent reader *)

IdleEngine ==
    /\ text = <<>>
    /\ playbook = Playbook("FIXED_TOKEN", <<"*">>, <<>>)
    /\ dry_run = FALSE
    /\ pc = "idle"
    /\ agenda = <<>>
    /\ protected_text = <<>>
    /\ counter = 0
    /\ placeholders = <<>>
    /\ report = EmptyReport
    /\ applied = <<>>
    /\ restored = <<>>

WriteTarget == <<"out", <<"f">>>>

\* The directory before the call: the target absent or holding earlier
\* content, and perhaps a temporary file left by an earlier failed call
InitialDirs ==
    { [p \in present |->
          IF p = WriteTarget THEN PlainFile(old) ELSE PlainFile(<<"a">>)] :
        present \in SUBSET {WriteTarget, <<"out", <<"t", "m", "p", "1">>>>},
        old \in {<<>>, <<"a", "1">>} }

InitWrite ==
    /\ IdleEngine
    /\ IdleXml
    /\ IdleParts
    /\ IdleProc
    /\ IdleUtil
    /\ IdleHot
    /\ fs \in InitialDirs
    /\ fs0 = fs
    /\ w_pc = "mkdir"
    /\ w_target = WriteTarget
    /\ w_data \in {PlainFile(b) : b \in ByteStrings}
    /\ w_tmp = <<>>
    /\ observed = {}

NextWrite ==
    \/ WMkdir \/ WCreateTemp \/ WWrite \/ WFlush \/ WFsync \/ WReplace
    \/ WFail \/ ReaderReads

SpecWrite == InitWrite /\ [][NextWrite]_vars

-----------------------------------------------------------------------------
(* One _accept_revisions call on a parsed part *)

ElementTags == {"w:r"} \cup RevisionTags

RECURSIVE Ascending(_)
Ascending(S) ==
    IF S = {} THEN <<>>
    ELSE LET m == CHOOSE x \in S : \A y \in S : x <= y
         IN  <<m>> \o Ascending(S \ {m})

\* Every shape of tree on n elements: each element after the root hangs under
\* an earlier one, and siblings stand in the order of their numbers
Shapes(n) ==
    { [k \in 1..n |-> IF k = Root THEN 0 ELSE up[k]] :
        up \in { f \in [2..n -> 1..n] : \A k \in 2..n : f[k] < k } }

ParsedTree(tags, parents) ==
    Tree(tags, parents,
         [k \in DOMAIN tags |-> Ascending({c \in DOMAIN tags : parents[c] = k})],
         [k \in DOMAIN tags |-> <<>>])

InitXml ==
    /\ IdleEngine
    /\ IdleWrite
    /\ IdleParts
    /\ IdleProc
    /\ IdleUtil
    /\ IdleHot
    /\ \E n \in 1..MaxNodes :
          \E tags \in [1..n -> ElementTags], parents \in Shapes(n) :
              x_tree = ParsedTree(tags, parents)
    /\ x_tree0 = x_tree
    /\ x_pc = "xpath"
    /\ x_pass = 1
    /\ x_todo = <<>>

NextXml == EvalXPath \/ RemoveStep \/ UnwrapStep \/ NextTag

SpecXml == InitXml /\ [][NextXml]_vars

-----------------------------------------------------------------------------
(* One clean_docx_parts or _apply_rules_to_parts call on a parts mapping *)

PoolRule(id) == CHOOSE r \in RulePool : r.rule_id = id

\* A playbook without rules, one that masks digits, one that removes keywords
\* after an allowlist
DocPlaybooks ==
    { Playbook("FIXED_TOKEN", <<"*">>, <<>>),
      Playbook("FIXED_TOKEN", <<"*">>, <<PoolRule("rx1")>>),
      Playbook("SAME_LENGTH_MASK", <<"*">>, <<PoolRule("kw1"), PoolRule("al2")>>) }

XmlTree(tags, parents, texts) ==
    Tree(tags, parents,
         [k \in DOMAIN tags |-> Ascending({c \in DOMAIN tags : parents[c] = k})],
         texts)

\* Parsed documents: a paragraph with a run of text and a deletion, one with
\* an insertion and a comment reference, document properties
ParagraphWithDeletion ==
    XmlTree(<<"w:p", "w:t", "w:del", "w:t">>, <<0, 1, 1, 3>>,
            <<<<>>, <<"a", "1">>, <<>>, <<"a">>>>)

ParagraphWithInsertion ==
    XmlTree(<<"w:p", "w:ins", "w:t", "w:commentReference">>, <<0, 1, 2, 1>>,
            <<<<>>, <<>>, <<"1">>, <<>>>>)

CoreProperties ==
    XmlTree(<<"cp:coreProperties", "dc:creator">>, <<0, 1>>, <<<<>>, <<"a">>>>)

\* Bytes a part may hold: well-formed and spelled as etree.tostring spells
\* them or otherwise, empty, or cut short
SampleData ==
    { XmlBytes(TRUE, ParagraphWithDeletion),
      XmlBytes(FALSE, ParagraphWithInsertion),
      XmlBytes(FALSE, CoreProperties),
      BrokenBytes(<<>>), BrokenBytes(<<"<", "a">>) }

PartNames ==
    { DOCUMENT_PART, COMMENTS_PART, CORE_PART, CUSTOM_PART,
      <<"word/", "media/", "image1", ".png">>, <<"customXml/", "item1", ".xml">> }

\* A parts mapping of n parts: distinct names, any order
IsMapping(names, datas) ==
    /\ \A i, j \in DOMAIN names : names[i] = names[j] => i = j
    /\ DOMAIN names = DOMAIN datas

Mapping(names, datas) ==
    [k \in DOMAIN names |-> [name |-> names[k], data |-> datas[k]]]

InitParts ==
    /\ IdleWrite
    /\ IdleXml
    /\ IdleProc
    /\ IdleUtil
    /\ IdleHot
    /\ text = <<>>
    /\ pc = "idle"
    /\ agenda = <<>>
    /\ protected_text = <<>>
    /\ counter = 0
    /\ placeholders = <<>>
    /\ report = EmptyReport
    /\ applied = <<>>
    /\ restored = <<>>
    /\ d_call \in {"clean", "apply"}
    /\ playbook \in IF d_call = "apply" THEN DocPlaybooks
                    ELSE {Playbook("FIXED_TOKEN", <<"*">>, <<>>)}
    /\ dry_run \in IF d_call = "apply" THEN BOOLEAN ELSE {FALSE}
    /\ \E n \in 0..MaxParts :
          \E names \in [1..n -> PartNames], datas \in [1..n -> SampleData] :
              /\ IsMapping(names, datas)
              /\ d_parts = Mapping(names, datas)
    /\ d_out = d_parts
    /\ d_aggregate = EmptyReport
    /\ d_contrib = <<>>
    /\ d_pc = d_call
    /\ d_i = 1

NextParts == CleanPart \/ CleanReturn \/ ApplyPart \/ ApplyReturn

SpecParts == InitParts /\ [][NextParts]_vars

-----------------------------------------------------------------------------
(* One process_txt or process_docx call *)

TXT == <<".", "t", "x", "t">>

DOCX == <<".", "d", "o", "c", "x">>

\* Stems that are safe as they are, that need cleaning, that clean to nothing
Stems == {<<"a">>, <<" ", "a", "!", "!", "1">>, <<" ">>}

\* The output directory before the call: empty, or holding an earlier output
\* under the name this call will use and a stray temporary file
OutputDirs(target) ==
    { <<>>,
      [q \in {target, <<target[1], <<"t", "m", "p", "1">>>>} |->
          PlainFile(<<"1", "1", "1">>)] }

\* What the input archive may hold
ArchiveNames ==
    {DOCUMENT_PART, COMMENTS_PART, <<"word/", "media/", "image1", ".png">>}

ArchiveData ==
    { XmlBytes(TRUE, ParagraphWithDeletion),
      XmlBytes(FALSE, ParagraphWithInsertion),
      BrokenBytes(<<"<", "a">>) }

\* The files before the call: the input file and the output directory
FilesWith(path, content, others) ==
    [q \in {path} \cup DOMAIN others |-> IF q = path THEN content ELSE others[q]]

InitProc ==
    /\ text = <<>>
    /\ pc = "idle"
    /\ agenda = <<>>
    /\ protected_text = <<>>
    /\ counter = 0
    /\ placeholders = <<>>
    /\ report = EmptyReport
    /\ applied = <<>>
    /\ restored = <<>>
    /\ IdleXml
    /\ IdleParts
    /\ IdleUtil
    /\ IdleHot
    /\ playbook \in DocPlaybooks
    /\ dry_run \in BOOLEAN
    /\ p_kind \in {"txt", "docx"}
    /\ p_outdir = "out"
    /\ \E stem \in IF p_kind = "txt" THEN Stems ELSE {<<"a">>} :
          p_input = [dir |-> "in", stem |-> stem,
                     suffix |-> IF p_kind = "txt" THEN TXT ELSE DOCX]
    /\ \E others \in OutputDirs(OutputPath(p_outdir, p_input)) :
          \/ /\ p_kind = "txt"
             /\ \E b \in ByteStrings :
                   fs = FilesWith(FsPath(p_input), PlainFile(b), others)
          \/ /\ p_kind = "docx"
             /\ others = <<>>
             /\ \/ fs = FilesWith(FsPath(p_input), PlainFile(<<"a">>), others)
                \/ \E n \in 0..MaxParts :
                      \E names \in [1..n -> ArchiveNames],
                         datas \in [1..n -> ArchiveData] :
                          /\ IsMapping(names, datas)
                          /\ fs = FilesWith(FsPath(p_input),
                                            ZipFile(Mapping(names, datas)), others)
    /\ fs0 = fs
    /\ w_pc = "idle"
    /\ w_target = <<>>
    /\ w_data = PlainFile(<<>>)
    /\ w_tmp = <<>>
    /\ observed = {}
    /\ p_pc = "start"
    /\ p_input_bytes = PlainFile(<<>>)
    /\ p_redacted = <<>>
    /\ p_report = EmptyReport
    /\ p_output_bytes = None
    /\ p_output_path = None
    /\ p_result = None
    /\ audit = <<>>
    /\ logged_after = FALSE

NextProc ==
    \/ TxtCompute \/ DocxCompute \/ StartWrite
    \/ WMkdir \/ WCreateTemp \/ WWrite \/ WFlush \/ WFsync \/ WReplace \/ WFail
    \/ WriteRaised \/ LogAudit \/ Return

SpecProc == InitProc /\ [][NextProc]_vars

-----------------------------------------------------------------------------
(* Properties of the rule engine *)

EnabledRules(pb, types) ==
    {pb.rules[i] : i \in {k \in 1..Len(pb.rules) :
                            pb.rules[k].enabled /\ pb.rules[k].rule_type \in types}}

MatcherTypes == {"dictionary_entities", "regex_patterns", "keyword_list"}

\* The number of matches rule r has in txt itself
MatchesIn(r, pb, txt) == ApplyRule(txt, r, pb, EmptyReport, TRUE).report.total_matches

\* C1: every occurrence in the input of a phrase of an enabled allowlist rule
\* is still there, unaltered, in the text apply_rules returns, whatever other
\* rules the playbook enables.
C1_AllowlistedPhrasesSurvive ==
    pc = "done" =>
        \A r \in EnabledRules(playbook, {"allowlist"}) :
            \A k \in 1..Len(r.phrases) :
                Occurrences(r.phrases[k], restored) >= Occurrences(r.phrases[k], text)

\* C2: the report of a dry run equals the report of a live run on the same
\* text and playbook.
C2_DryRunReportEqualsLive ==
    pc = "done" => report = ApplyRules(text, playbook, ~dry_run).report

TypeRank(t) ==
    CASE t = "allowlist" -> 1 [] t = "dictionary_entities" -> 2
      [] t = "regex_patterns" -> 3 [] OTHER -> 4

RuleOfId(pb, id) == CHOOSE r \in {pb.rules[i] : i \in 1..Len(pb.rules)} : r.rule_id = id

WithoutDisabled(pb) ==
    [pb EXCEPT !.rules = SelectSeq(pb.rules, LAMBDA r : r.enabled)]

\* Two enabled rules of one matcher group with different priorities, and no
\* other enabled rule
TwoOfAGroup(pb, lo, hi) ==
    /\ EnabledRules(pb, RULE_TYPES) = {lo, hi}
    /\ lo.rule_type = hi.rule_type
    /\ lo.rule_type \in MatcherTypes
    /\ lo.priority < hi.priority

\* C3: the rules are applied group by group (allowlist, dictionary_entities,
\* regex_patterns, keyword_list), each group in ascending priority; only
\* enabled rules are applied, each once, and a disabled rule changes neither
\* the text nor the report; of two rules of one group the one with the lower
\* priority value acts on the text first and the other sees what it left.
C3_RuleOrder ==
    LET ruleAt(i) == RuleOfId(playbook, applied[i])
        enabledIds == {r.rule_id : r \in EnabledRules(playbook, RULE_TYPES)}
    IN  /\ \A i \in 1..Len(applied) : applied[i] \in enabledIds
        /\ \A i, j \in 1..Len(applied) :
              i < j =>
                /\ applied[i] # applied[j]
                /\ TypeRank(ruleAt(i).rule_type) <= TypeRank(ruleAt(j).rule_type)
                /\ (ruleAt(i).rule_type = ruleAt(j).rule_type
                       => ruleAt(i).priority <= ruleAt(j).priority)
        /\ DOMAIN report.matches_by_rule_id \subseteq enabledIds
        /\ pc = "done" =>
              /\ {applied[i] : i \in 1..Len(applied)} = enabledIds
              /\ [text |-> restored, report |-> report]
                    = ApplyRules(text, WithoutDisabled(playbook), dry_run)
              /\ \A lo, hi \in EnabledRules(playbook, MatcherTypes) :
                    TwoOfAGroup(playbook, lo, hi) =>
                       LET a == ApplyRule(text, lo, playbook, EmptyReport, dry_run)
                           b == ApplyRule(a.text, hi, playbook, a.report, dry_run)
                       IN  restored = b.text /\ report = b.report

\* A live call has returned whose playbook lists two enabled keyword rules, the
\* one with the higher priority value first, both matching the input text.
C3_Witness ==
    /\ pc = "done"
    /\ ~dry_run
    /\ \E lo, hi \in EnabledRules(playbook, {"keyword_list"}) :
          /\ TwoOfAGroup(playbook, lo, hi)
          /\ playbook.rules[1] = hi
          /\ MatchesIn(lo, playbook, text) > 0
          /\ MatchesIn(hi, playbook, text) > 0
          /\ applied = <<lo.rule_id, hi.rule_id>>

\* No enabled rule but allowlist rules
OnlyAllowlist(pb) == EnabledRules(pb, MatcherTypes) = {}

\* C4: the placeholder map round-trips: the tokens of a call are distinct, none
\* is a substring of the input text, none is left in the returned text, and
\* with no other rule enabled the returned text is the input text.
C4_PlaceholdersRoundTrip ==
    pc = "done" =>
        /\ \A i, j \in 1..Len(placeholders) :
              placeholders[i].token = placeholders[j].token => i = j
        /\ \A i \in 1..Len(placeholders) :
              /\ ~Contains(text, placeholders[i].token)
              /\ ~Contains(restored, placeholders[i].token)
        /\ OnlyAllowlist(playbook) => restored = text

\* C5: when no enabled dictionary, regex or keyword rule has a match in the
\* input text, apply_rules returns the input text and reports no match.
C5_NoApplicableRuleIsIdentity ==
    (pc = "done"
       /\ \A r \in EnabledRules(playbook, MatcherTypes) : MatchesIn(r, playbook, text) = 0)
    => (restored = text /\ report.total_matches = 0)

-----------------------------------------------------------------------------
(* Properties of safe_write_atomic *)

\* C8: at every step of safe_write_atomic, and after a failure at any step, a
\* reader of the target path finds the target as it was before the call or
\* the complete new data; the target changes only by the final rename.
C8_ReaderNeverSeesPartial ==
    w_pc # "idle" =>
        LET old == ReadPath(fs0, w_target)
            new == [exists |-> TRUE, content |-> w_data]
        IN  /\ observed \subseteq {old, new}
            /\ w_pc # "done" => ReadPath(fs, w_target) = old
            /\ w_pc = "done" => ReadPath(fs, w_target) = new

\* The call failed after part of the data, and not all of it, had reached the
\* temporary file, the target held other content, and the reader has read.
C8_Witness ==
    /\ w_pc = "failed"
    /\ w_tmp \in DOMAIN fs
    /\ fs[w_tmp].bytes # <<>>
    /\ fs[w_tmp] # w_data
    /\ w_target \in DOMAIN fs0
    /\ fs0[w_target] # w_data
    /\ observed # {}

-----------------------------------------------------------------------------
(* Properties of _accept_revisions *)

\* What a serializer writes for the subtree of n: each element's start, its
\* text, its children, its end and its tail
RECURSIVE Doc(_, _)
RECURSIVE DocAll(_, _)
Doc(tree, n) ==
    <<<<"start", n>>, <<"text", n>>>> \o DocAll(tree, tree.kids[n])
        \o <<<<"end", n>>, <<"tail", n>>>>

DocAll(tree, ns) ==
    IF ns = <<>> THEN <<>>
    ELSE Doc(tree, Head(ns)) \o DocAll(tree, Tail(ns))

\* The document with its revisions settled: a rejected element below the root
\* goes with its subtree and its tail, a wrapper below the root leaves its
\* child elements in its place and takes its own text and tail with it
RECURSIVE Settled(_, _)
RECURSIVE SettledAll(_, _)
Settled(tree, n) ==
    IF n # Root /\ tree.tag[n] \in {"w:del", "w:moveFrom"} THEN <<>>
    ELSE IF n # Root /\ tree.tag[n] \in {"w:ins", "w:moveTo"}
      THEN SettledAll(tree, tree.kids[n])
    ELSE <<<<"start", n>>, <<"text", n>>>> \o SettledAll(tree, tree.kids[n])
            \o <<<<"end", n>>, <<"tail", n>>>>

SettledAll(tree, ns) ==
    IF ns = <<>> THEN <<>>
    ELSE Settled(tree, Head(ns)) \o SettledAll(tree, Tail(ns))

ElementsIn(tree) ==
    LET order == Preorder(tree, Root)
    IN  {order[k] : k \in 1..Len(order)}

\* C9 as stated: for every parsed tree, after _accept_revisions no w:del,
\* w:moveFrom, w:ins or w:moveTo element remains, the children of each wrapper
\* stand where the wrapper stood, in their order, and every other element
\* keeps its place in document order.
C9_NoRevisionElementRemains ==
    x_pc = "done" =>
        /\ \A n \in ElementsIn(x_tree) : x_tree.tag[n] \notin RevisionTags
        /\ Doc(x_tree, Root) = Settled(x_tree0, Root)

\* C9 amended: the same for every element below the root; the root element
\* stays whatever its tag.  The tail of each removed element, and the text and
\* tail of each unwrapped wrapper, go with it.
C9_RevisionsBelowRootSettled ==
    x_pc = "done" =>
        /\ \A n \in ElementsIn(x_tree) \ {Root} :
              x_tree.tag[n] \notin RevisionTags
        /\ Doc(x_tree, Root) = Settled(x_tree0, Root)
        /\ x_tree = AcceptRevisions(x_tree0)

\* A wrapper inside a wrapper below the root, the inner one with a child,
\* and that child has ended up as the root's only child.
C9_Witness ==
    /\ x_pc = "done"
    /\ \E a, b, c \in DOMAIN x_tree0.tag :
          /\ x_tree0.parent[a] = Root
          /\ x_tree0.parent[b] = a
          /\ x_tree0.parent[c] = b
          /\ x_tree0.tag[a] \in {"w:ins", "w:moveTo"}
          /\ x_tree0.tag[b] \in {"w:ins", "w:moveTo"}
          /\ x_tree0.tag[c] = "w:r"
          /\ x_tree.kids[Root] = <<c>>
          /\ x_tree.parent[c] = Root

-----------------------------------------------------------------------------
(* Properties of the loops over parts *)

Malformed(data) == FromString(data).error # "none"

KeptAsIs(part) ==
    /\ HasPart(d_out, part.name)
    /\ PartData(d_out, part.name) = part.data

\* C10 as stated: whatever its name, a part whose bytes do not parse is in
\* the result of clean_docx_parts and of _apply_rules_to_parts under its name
\* with the same bytes, no error is raised, and the part adds nothing to the
\* aggregate report.
C10_MalformedPartsKeptUnderEveryName ==
    /\ d_pc # "raised"
    /\ d_pc = "done" =>
          \A k \in DOMAIN d_parts :
              Malformed(d_parts[k].data) =>
                  /\ KeptAsIs(d_parts[k])
                  /\ d_call = "apply" => d_contrib[k] = EmptyReport

\* C10 amended: the same for every part name but word/comments.xml in
\* clean_docx_parts, which drops the comments part whether it parses or not;
\* _apply_rules_to_parts keeps a malformed part under every name.
C10_MalformedPartsKeptButComments ==
    /\ d_pc # "raised"
    /\ d_pc = "done" =>
          \A k \in DOMAIN d_parts :
              Malformed(d_parts[k].data) =>
                  /\ (d_call = "apply" \/ d_parts[k].name # COMMENTS_PART)
                        => KeptAsIs(d_parts[k])
                  /\ (d_call = "clean" /\ d_parts[k].name = COMMENTS_PART)
                        => ~HasPart(d_out, COMMENTS_PART)
                  /\ d_call = "apply" => d_contrib[k] = EmptyReport
                  /\ d_call = "apply" =>
                        d_aggregate = ApplyRulesToParts(
                            SelectSeq(d_parts, LAMBDA p : ~Malformed(p.data)),
                            playbook, dry_run).report

\* A live _apply_rules_to_parts call has finished on a mapping that holds a
\* malformed part under word/ beside a part whose text matched and changed.
C10_Witness ==
    /\ d_pc = "done"
    /\ d_call = "apply"
    /\ ~dry_run
    /\ d_aggregate.total_matches > 0
    /\ d_out # d_parts
    /\ \E k \in DOMAIN d_parts :
          /\ Malformed(d_parts[k].data)
          /\ d_parts[k].data.raw # <<>>
          /\ StartsWith(d_parts[k].name, "word/")
          /\ EndsWith(d_parts[k].name, ".xml")

-----------------------------------------------------------------------------
(* Properties of the document processors *)

\* C6: a dry-run call never enters safe_write_atomic, leaves every file (the
\* input file and the output directory) as it was, and returns neither an
\* output path nor output bytes; a live call that returns has written one
\* file, output_dir/<sanitize(stem)>_blurred<suffix>, and changed no other.
C6_DryRunWritesNothingLiveWritesOne ==
    /\ dry_run =>
          /\ fs = fs0
          /\ w_pc = "idle"
          /\ p_pc = "returned" =>
                /\ p_result.value.output_path = None
                /\ p_result.value.output_bytes = None
    /\ (~dry_run /\ p_pc = "returned") =>
          LET target == <<p_outdir,
                          SanitizeFilename(p_input.stem, DEFAULT_MAX_LENGTH)
                              \o BLURRED \o p_input.suffix>>
          IN  /\ p_result.value.output_path = Some(target)
              /\ p_result.value.output_bytes.some
              /\ fs = PutFile(fs0, target, p_result.value.output_bytes.value)

\* A live process_txt call has returned: the stem needed cleaning, the rules
\* matched, and the output replaced an earlier file of the same name.
C6_Witness ==
    /\ p_pc = "returned"
    /\ p_kind = "txt"
    /\ ~dry_run
    /\ SanitizeFilename(p_input.stem, DEFAULT_MAX_LENGTH) # p_input.stem
    /\ p_report.total_matches > 0
    /\ p_output_path.value \in DOMAIN fs0
    /\ fs # fs0

\* C7: a call that returns has sent one record to the audit sink, after the
\* output (if any) was in place; the record carries the hash of the input
\* bytes, and a hash of the output bytes exactly when the call was live, the
\* empty input included.
C7_OneAuditRecordWithHashes ==
    p_pc = "returned" =>
        /\ Len(audit) = 1
        /\ audit[1].sha256_input = Sha256(fs0[FsPath(p_input)])
        /\ audit[1].sha256_output.some <=> ~dry_run
        /\ ~dry_run =>
              /\ audit[1].sha256_output =
                    Some(Sha256(p_result.value.output_bytes.value))
              /\ logged_after

-----------------------------------------------------------------------------
(* Properties of REPLACE *)

\* Every match of the alternation in txt replaced by the same text
ReplaceEach(txt, alts, ci, new) ==
    LET ms == FindAll(alts, txt, ci)
    IN  SubAll(txt, ms, [i \in 1..Len(ms) |-> new])

\* The formatted template of the rule, or the bracketed default without one
TemplateOrDefault(rule) ==
    IF rule.replacement_template # <<>> THEN Format(rule.replacement_template, rule)
    ELSE Format(DefaultReplaceTemplate, rule)

\* The keys of a dictionary rule replaced one after the other, each by
\* new[k]
RECURSIVE ReplaceKeysFrom(_, _, _, _)
ReplaceKeysFrom(txt, rule, new, k) ==
    IF k > Len(rule.dictionary) THEN txt
    ELSE ReplaceKeysFrom(ReplaceEach(txt, <<Literal(rule.dictionary[k].key)>>,
                                     rule.case_insensitive, new[k]),
                         rule, new, k + 1)

\* The non-empty patterns of a regex rule replaced one after the other
RECURSIVE ReplacePatternsFrom(_, _, _)
ReplacePatternsFrom(txt, rule, k) ==
    IF k > Len(rule.patterns) THEN txt
    ELSE IF rule.patterns[k].pattern = <<>> THEN ReplacePatternsFrom(txt, rule, k + 1)
    ELSE ReplacePatternsFrom(
             ReplaceEach(txt, rule.patterns[k].pattern,
                         rule.case_insensitive \/ rule.patterns[k].case_insensitive,
                         TemplateOrDefault(rule)),
             rule, k + 1)

\* The keywords of a keyword rule replaced in one pass
ReplaceKeywords(txt, rule) ==
    IF rule.keywords = <<>> THEN txt
    ELSE ReplaceEach(txt, [k \in 1..Len(rule.keywords) |-> Literal(rule.keywords[k])],
                     rule.case_insensitive, TemplateOrDefault(rule))

\* A live run of a playbook whose one rule is an enabled REPLACE matcher
OneReplaceRule ==
    /\ pc = "done"
    /\ ~dry_run
    /\ Len(playbook.rules) = 1
    /\ playbook.rules[1].enabled
    /\ playbook.rules[1].action = "REPLACE"
    /\ playbook.rules[1].rule_type \in MatcherTypes

-----------------------------------------------------------------------------
(* sanitize_filename, call by call *)

NameChars == {"a", ".", "!", " "}

\* Every name over the characters up to the bound, and names longer than the
\* longest result
Names ==
    UNION { [1..n -> NameChars] : n \in 0..MaxNameLen }
      \cup { [k \in 1..(DEFAULT_MAX_LENGTH + 1) |-> "a"],
             [k \in 1..(DEFAULT_MAX_LENGTH + 1) |-> "!"],
             [k \in 1..(2 * DEFAULT_MAX_LENGTH) |->
                 IF k = 1 THEN " " ELSE IF k % 3 = 0 THEN "a" ELSE "!"] }

InitUtil ==
    /\ s_name \in Names
    /\ s_pc = "called"
    /\ s_result = None
    /\ IdleEngine
    /\ IdleWrite
    /\ IdleXml
    /\ IdleParts
    /\ IdleProc
    /\ IdleHot

\* sanitize_filename(name), max_length left at its default
Sanitize ==
    /\ s_pc = "called"
    /\ s_result' = Some(SanitizeFilename(s_name, DEFAULT_MAX_LENGTH))
    /\ s_pc' = "returned"
    /\ UNCHANGED <<s_name, engine_vars, write_vars, xml_vars, parts_vars, proc_vars,
                   hot_vars>>

NextUtil == Sanitize

SpecUtil == InitUtil /\ [][NextUtil]_vars

-----------------------------------------------------------------------------
(* Properties of sanitize_filename *)

\* The steps after the substitution: "file" for an empty name, then the cut
\* at 255 characters
FileIfEmptyThenCut(sanitized) ==
    LET named == IF sanitized = <<>> THEN <<"f", "i", "l", "e">> ELSE sanitized
    IN  [k \in 1..(IF Len(named) < DEFAULT_MAX_LENGTH THEN Len(named)
                   ELSE DEFAULT_MAX_LENGTH) |-> named[k]]

\* One underscore in the place of each character outside the class
EachCharacterReplaced(s) ==
    [k \in 1..Len(s) |-> IF IsSafeFilenameChar(s[k]) THEN s[k] ELSE "_"]

\* One underscore in the place of each maximal run of characters outside the
\* class: only the first character of a run leaves an underscore
EachRunReplaced(s) ==
    LET first(k) == ~IsSafeFilenameChar(s[k])
                      /\ (k = 1 \/ IsSafeFilenameChar(s[k - 1]))
        kept(k) == IsSafeFilenameChar(s[k]) \/ first(k)
    IN  [j \in DOMAIN SelectSeq([k \in 1..Len(s) |-> k], kept) |->
            LET k == SelectSeq([i \in 1..Len(s) |-> i], kept)[j]
            IN  IF IsSafeFilenameChar(s[k]) THEN s[k] ELSE "_"]

\* The result is not empty, has only characters of the class, and is at most
\* 255 characters long
SafeName(r) ==
    /\ r # <<>>
    /\ \A k \in 1..Len(r) : IsSafeFilenameChar(r[k])
    /\ Len(r) <= DEFAULT_MAX_LENGTH

\* C12 as stated: sanitize_filename(name) is the name trimmed, every single
\* character outside [A-Za-z0-9._-] replaced by one underscore, "file" if that
\* is empty, cut at 255 characters; hence never empty, of safe characters
\* only, and at most 255 long.
C12_OneUnderscorePerCharacter ==
    s_pc = "returned" =>
        /\ s_result.value = FileIfEmptyThenCut(EachCharacterReplaced(Strip(s_name)))
        /\ SafeName(s_result.value)

\* C12, amended: sanitize_filename(name) is the name trimmed, every maximal
\* run of characters outside [A-Za-z0-9._-] replaced by one underscore,
\* "file" if that is empty, cut at 255 characters; hence never empty, of
\* safe characters only, and at most 255 long.
C12_OneUnderscorePerRun ==
    s_pc = "returned" =>
        /\ s_result.value = FileIfEmptyThenCut(EachRunReplaced(Strip(s_name)))
        /\ SafeName(s_result.value)

\* A name with a run of two unsafe characters, trimmed and sanitized; and a
\* name that was cut
C12_Witness ==
    /\ s_pc = "returned"
    /\ \/ s_name = <<" ", "a", "!", "!">> /\ s_result.value = <<"a", "_">>
       \/ Len(s_name) > DEFAULT_MAX_LENGTH /\ Len(s_result.value) = DEFAULT_MAX_LENGTH

-----------------------------------------------------------------------------
(* Properties of the match reports *)

RECURSIVE SumSeq(_)
SumSeq(ns) == IF ns = <<>> THEN 0 ELSE Head(ns) + SumSeq(Tail(ns))

\* The sum of the values of a dictionary
RECURSIVE SumValues(_)
SumValues(d) ==
    IF DOMAIN d = {} THEN 0
    ELSE LET k == CHOOSE x \in DOMAIN d : TRUE
         IN  d[k] + SumValues([x \in (DOMAIN d) \ {k} |-> d[x]])

\* total_matches is the sum of either dictionary, and no stored count is zero
\* or negative
Balanced(rep) ==
    /\ rep.total_matches = SumValues(rep.matches_by_rule_type)
    /\ rep.total_matches = SumValues(rep.matches_by_rule_id)
    /\ \A k \in DOMAIN rep.matches_by_rule_type : rep.matches_by_rule_type[k] > 0
    /\ \A k \in DOMAIN rep.matches_by_rule_id : rep.matches_by_rule_id[k] > 0

\* The reports apply_rules returns for the text nodes of the parts already
\* visited, last node of the last part first.  A node without text has no
\* report.
RECURSIVE NodeReportsFrom(_, _, _, _)
NodeReportsFrom(parts, pb, dry, k) ==
    IF k = 0 THEN <<>>
    ELSE LET name == parts[k].name
             parsed == FromString(parts[k].data)
             nodes == IF StartsWith(name, "word/") /\ EndsWith(name, ".xml")
                         /\ parsed.error = "none"
                        THEN XPathDescendants(parsed.tree, "w:t")
                        ELSE <<>>
             texts == SelectSeq([i \in 1..Len(nodes) |->
                                    parsed.tree.text[nodes[Len(nodes) + 1 - i]]],
                                LAMBDA t : t # <<>>)
         IN  [i \in 1..Len(texts) |-> ApplyRules(texts[i], pb, dry).report]
               \o NodeReportsFrom(parts, pb, dry, k - 1)

\* The sum of the dictionaries, key by key
SumDicts(ds) ==
    [k \in UNION {DOMAIN ds[i] : i \in DOMAIN ds} |->
        SumSeq([i \in DOMAIN ds |-> IF k \in DOMAIN ds[i] THEN ds[i][k] ELSE 0])]

\* The sum of the reports, field by field
FieldwiseSum(reps) ==
    [total_matches |-> SumSeq([i \in DOMAIN reps |-> reps[i].total_matches]),
     matches_by_rule_type |->
        SumDicts([i \in DOMAIN reps |-> reps[i].matches_by_rule_type]),
     matches_by_rule_id |->
        SumDicts([i \in DOMAIN reps |-> reps[i].matches_by_rule_id])]

\* _merge_reports over the reports, in their order
RECURSIVE MergeAll(_, _)
MergeAll(target, reps) ==
    IF reps = <<>> THEN target
    ELSE MergeAll(MergeReports(target, Head(reps)), Tail(reps))

\* C13: every report apply_rules returns for a text node, and the aggregate
\* after the merges made so far, has total_matches equal to the sum of
\* matches_by_rule_type and to the sum of matches_by_rule_id, with every stored
\* count positive; and the aggregate is the field-wise sum of the node reports,
\* the same when they are merged in the opposite order.
C13_ReportsBalancedAndSummed ==
    d_call = "apply" =>
        \E reps \in {NodeReportsFrom(d_parts, playbook, dry_run, d_i - 1)} :
            /\ \A i \in DOMAIN reps : Balanced(reps[i])
            /\ Balanced(d_aggregate)
            /\ d_aggregate = FieldwiseSum(reps)
            /\ d_aggregate = MergeAll(EmptyReport, reps)

\* Two text nodes have matched the same rule and all parts are done
C13_Witness ==
    /\ d_call = "apply"
    /\ d_pc = "done"
    /\ \E k \in DOMAIN d_aggregate.matches_by_rule_id :
          d_aggregate.matches_by_rule_id[k] >= 2
    /\ Cardinality({i \in DOMAIN d_contrib : d_contrib[i].total_matches > 0}) >= 1
    /\ d_aggregate.total_matches >= 2

-----------------------------------------------------------------------------
(* The hot folder (hotfolder.py) and the validation of its files             *)
(* (file_validation.py)                                                      *)

INPUT_DIR == "input_dir"
OUTPUT_DIR == "output_dir"
PROCESSED_DIR == "processed_dir"
ERROR_DIR == "error_dir"

\* f".processing_{path.name}"
PROCESSING_PREFIX == <<".", "p", "r", "o", "c", "e", "s", "s", "i", "n", "g", "_">>

ProcessingName(name) == PROCESSING_PREFIX \o name

HasPrefix(s, prefix) ==
    Len(s) >= Len(prefix) /\ SubSeq(s, 1, Len(prefix)) = prefix

HasSuffix(s, suffix) ==
    Len(s) >= Len(suffix) /\ SubSeq(s, Len(s) - Len(suffix) + 1, Len(s)) = suffix

\* HotFolderConfig.ignore_patterns, left at its default:
\* ("~$*", "*.tmp", ".DS_Store")
IsIgnored(name) ==
    \/ HasPrefix(name, <<"~", "$">>)
    \/ HasSuffix(name, <<".", "t", "m", "p">>)
    \/ name = <<".", "D", "S", "_", "S", "t", "o", "r", "e">>

\* Where the suffix of a name begins: at its last dot, unless that dot is the
\* first or the last character; 0 without a suffix
SuffixStart(name) ==
    LET dots == {k \in 2..(Len(name) - 1) : name[k] = "."}
    IN  IF dots = {} THEN 0 ELSE CHOOSE k \in dots : \A j \in dots : j <= k

\* path.suffix
Suffix(name) ==
    IF SuffixStart(name) = 0 THEN <<>>
    ELSE SubSeq(name, SuffixStart(name), Len(name))

\* path.stem
Stem(name) ==
    IF SuffixStart(name) = 0 THEN name
    ELSE SubSeq(name, 1, SuffixStart(name) - 1)

DOCX_SUFFIX == <<".", "d", "o", "c", "x">>

TXT_SUFFIX == <<".", "t", "x", "t">>

\* The characters of the names, in the order of their code points
CodePoints ==
    <<" ", "!", "$", "-", ".", "1", "_", "a", "b", "c", "d", "e", "f", "g", "i",
      "l", "m", "n", "o", "p", "r", "s", "t", "u", "x", "~">>

CodePoint(c) == IndexOf(CodePoints, c)

\* s < t, as Python compares strings
NameLess(s, t) ==
    \E k \in 1..Len(t) :
        /\ k <= Len(s) + 1
        /\ SubSeq(s, 1, k - 1) = SubSeq(t, 1, k - 1)
        /\ k = Len(s) + 1 \/ CodePoint(s[k]) < CodePoint(t[k])

\* sorted(names)
RECURSIVE SortedNames(_)
SortedNames(names) ==
    IF names = {} THEN <<>>
    ELSE LET least == CHOOSE n \in names : \A m \in names \ {n} : NameLess(n, m)
         IN  <<least>> \o SortedNames(names \ {least})

\* input_dir.iterdir(): the names in the directory
Listing(files, dir) == {p[2] : p \in {q \in DOMAIN files : q[1] = dir}}

Exists(files, dir, name) == <<dir, name>> \in DOMAIN files

\* os.replace(src, dst) on a source that exists
Replace(files, src, dst) == PutFile(RemoveFile(files, src), dst, files[src])

\* A file of the hot folder: what it holds, and (history) the name under which
\* it came into input_dir
HotFile(origin, kind) == [origin |-> origin, kind |-> kind]

\* validate_docx(path).valid: the file is there, is not over MAX_INPUT_BYTES,
\* and is a zip archive with the required parts
ValidateDocx(files, dir, name) ==
    Exists(files, dir, name) /\ files[<<dir, name>>].kind = "docx"

\* validate_txt(path).valid: the file is there and is not over MAX_INPUT_BYTES
ValidateTxt(files, dir, name) ==
    Exists(files, dir, name) /\ files[<<dir, name>>].kind # "huge"

\* _process_file up to the processor call: "docx" or "txt" when process_docx
\* or process_txt is to be called, "none" when the function returns without
\* a call
ProcessorFor(files, name, file_types) ==
    LET suffix == [k \in DOMAIN Suffix(name) |-> Lower(Suffix(name)[k])]
    IN  IF suffix = DOCX_SUFFIX /\ "docx" \in file_types
          THEN IF ValidateDocx(files, INPUT_DIR, name) THEN "docx" ELSE "none"
        ELSE IF suffix = TXT_SUFFIX /\ "txt" \in file_types
          THEN IF ValidateTxt(files, INPUT_DIR, name) THEN "txt" ELSE "none"
        ELSE "none"

\* The directory a file goes to after a success, after a failure
SuccessDir(cfg) == IF cfg.processed_dir THEN PROCESSED_DIR ELSE INPUT_DIR

FailureDir(cfg) == IF cfg.error_dir THEN ERROR_DIR ELSE INPUT_DIR

Holding == {"validate", "invoke", "success", "failure"}

Bump(f, w) == [f EXCEPT ![w] = f[w] + 1]

\* process_once with config.enabled false: it returns at once
PollDisabled(w) ==
    /\ w \in h_workers
    /\ h_pc[w] = "idle"
    /\ ~h_cfg.enabled
    /\ h_polls[w] < MaxPolls
    /\ h_polls' = Bump(h_polls, w)
    /\ UNCHANGED <<h_cfg, h_fs, h_workers, h_pc, h_todo, h_path, h_success,
                   h_failure, h_last, h_acquired, h_held, h_invoked, h_called, h_routed>>
    /\ UNCHANGED <<engine_vars, write_vars, xml_vars, parts_vars, proc_vars, util_vars>>

\* process_once up to the loop: sorted(input_dir.iterdir())
List(w) ==
    /\ w \in h_workers
    /\ h_pc[w] = "idle"
    /\ h_cfg.enabled
    /\ h_polls[w] < MaxPolls
    /\ h_polls' = Bump(h_polls, w)
    /\ h_todo' = [h_todo EXCEPT ![w] = SortedNames(Listing(h_fs, INPUT_DIR))]
    /\ h_pc' = [h_pc EXCEPT ![w] = "scan"]
    /\ UNCHANGED <<h_cfg, h_fs, h_workers, h_path, h_success, h_failure, h_last,
                   h_acquired, h_held, h_invoked, h_called, h_routed>>
    /\ UNCHANGED <<engine_vars, write_vars, xml_vars, parts_vars, proc_vars, util_vars>>

\* One turn of the loop that goes on to the next path: the path is no file
\* any more, or is ignored, or is gone when os.replace is called
Skip(w) ==
    /\ w \in h_workers
    /\ h_pc[w] = "scan"
    /\ h_todo[w] # <<>>
    /\ \/ ~Exists(h_fs, INPUT_DIR, Head(h_todo[w]))
       \/ IsIgnored(Head(h_todo[w]))
    /\ h_todo' = [h_todo EXCEPT ![w] = Tail(h_todo[w])]
    /\ UNCHANGED <<h_cfg, h_fs, h_workers, h_pc, h_path, h_success, h_failure,
                   h_last, h_polls, h_acquired, h_held, h_invoked, h_called, h_routed>>
    /\ UNCHANGED <<engine_vars, write_vars, xml_vars, parts_vars, proc_vars, util_vars>>

\* One turn of the loop up to _acquire_processing_lock: os.replace(path,
\* processing_path) on a file that is there and is not ignored
Acquire(w) ==
    /\ w \in h_workers
    /\ h_pc[w] = "scan"
    /\ h_todo[w] # <<>>
    /\ Exists(h_fs, INPUT_DIR, Head(h_todo[w]))
    /\ ~IsIgnored(Head(h_todo[w]))
    /\ h_fs' = Replace(h_fs, <<INPUT_DIR, Head(h_todo[w])>>,
                       <<INPUT_DIR, ProcessingName(Head(h_todo[w]))>>)
    /\ h_path' = [h_path EXCEPT ![w] = Head(h_todo[w])]
    /\ h_held' = [h_held EXCEPT ![w] = h_fs[<<INPUT_DIR, Head(h_todo[w])>>].origin]
    /\ h_todo' = [h_todo EXCEPT ![w] = Tail(h_todo[w])]
    /\ h_acquired' = Bump(h_acquired, w)
    /\ h_called' = [h_called EXCEPT ![w] = FALSE]
    /\ h_pc' = [h_pc EXCEPT ![w] = "validate"]
    /\ UNCHANGED <<h_cfg, h_workers, h_success, h_failure, h_last, h_polls,
                   h_invoked, h_routed>>
    /\ UNCHANGED <<engine_vars, write_vars, xml_vars, parts_vars, proc_vars, util_vars>>

\* _process_file up to the processor call: the suffix, file_types and the
\* validation decide whether a processor is called; without a call the
\* function returns, and process_once goes on as after a call
Validate(w) ==
    /\ w \in h_workers
    /\ h_pc[w] = "validate"
    /\ h_pc' = [h_pc EXCEPT ![w] =
                   IF ProcessorFor(h_fs, ProcessingName(h_path[w]),
                                   h_cfg.file_types) = "none"
                     THEN "success"
                     ELSE "invoke"]
    /\ UNCHANGED <<h_cfg, h_fs, h_workers, h_todo, h_path, h_success, h_failure,
                   h_last, h_polls, h_acquired, h_held, h_invoked, h_called,
                   h_routed>>
    /\ UNCHANGED <<engine_vars, write_vars, xml_vars, parts_vars, proc_vars, util_vars>>

\* process_docx or process_txt with dry_run=False: it reads the input, which
\* raises when the file is gone, and writes the output, named after the stem
\* of the path it was given
Invoke(w) ==
    /\ w \in h_workers
    /\ h_pc[w] = "invoke"
    /\ IF Exists(h_fs, INPUT_DIR, ProcessingName(h_path[w]))
         THEN LET file == h_fs[<<INPUT_DIR, ProcessingName(h_path[w])>>]
                  out == OutputPath(OUTPUT_DIR,
                                    [stem |-> Stem(ProcessingName(h_path[w])),
                                     suffix |-> Suffix(ProcessingName(h_path[w]))])
              IN  /\ h_fs' = PutFile(h_fs, out, HotFile(file.origin, "output"))
                  /\ h_invoked' =
                        [o \in (DOMAIN h_invoked) \cup {file.origin} |->
                            (IF o \in DOMAIN h_invoked THEN h_invoked[o] ELSE 0)
                            + (IF o = file.origin THEN 1 ELSE 0)]
                  /\ h_called' = [h_called EXCEPT ![w] = TRUE]
                  /\ h_pc' = [h_pc EXCEPT ![w] = "success"]
         ELSE /\ h_pc' = [h_pc EXCEPT ![w] = "failure"]
              /\ UNCHANGED <<h_fs, h_invoked, h_called>>
    /\ UNCHANGED <<h_cfg, h_workers, h_todo, h_path, h_success, h_failure, h_last,
                   h_polls, h_acquired, h_held, h_routed>>
    /\ UNCHANGED <<engine_vars, write_vars, xml_vars, parts_vars, proc_vars, util_vars>>

\* The rest of the try block: success_count += 1, last_processed, and the
\* move to processed_dir, or back to input_dir without one; a move of a file
\* that is gone raises inside the try block
Succeed(w) ==
    /\ w \in h_workers
    /\ h_pc[w] = "success"
    /\ h_success' = Bump(h_success, w)
    /\ h_last' = [h_last EXCEPT ![w] = ProcessingName(h_path[w])]
    /\ IF Exists(h_fs, INPUT_DIR, ProcessingName(h_path[w]))
         THEN /\ h_fs' = Replace(h_fs, <<INPUT_DIR, ProcessingName(h_path[w])>>,
                                 <<SuccessDir(h_cfg),
                                   SanitizeFilename(h_path[w], DEFAULT_MAX_LENGTH)>>)
              /\ h_routed' = [h_routed EXCEPT ![w] =
                                  [invoked |-> h_called[w], counted |-> "success",
                                   dir |-> SuccessDir(h_cfg)]]
              /\ h_held' = [h_held EXCEPT ![w] = <<>>]
              /\ h_pc' = [h_pc EXCEPT ![w] = "scan"]
         ELSE /\ h_pc' = [h_pc EXCEPT ![w] = "failure"]
              /\ UNCHANGED <<h_fs, h_routed, h_held>>
    /\ UNCHANGED <<h_cfg, h_workers, h_todo, h_path, h_failure, h_polls,
                   h_acquired, h_invoked, h_called>>
    /\ UNCHANGED <<engine_vars, write_vars, xml_vars, parts_vars, proc_vars, util_vars>>

\* The except block: failure_count += 1, last_processed, and the move to
\* error_dir, or back to input_dir without one; a move of a file that is gone
\* raises out of process_once, and the worker's loop ends
Fail(w) ==
    /\ w \in h_workers
    /\ h_pc[w] = "failure"
    /\ h_failure' = Bump(h_failure, w)
    /\ h_last' = [h_last EXCEPT ![w] = ProcessingName(h_path[w])]
    /\ IF Exists(h_fs, INPUT_DIR, ProcessingName(h_path[w]))
         THEN /\ h_fs' = Replace(h_fs, <<INPUT_DIR, ProcessingName(h_path[w])>>,
                                 <<FailureDir(h_cfg),
                                   SanitizeFilename(h_path[w], DEFAULT_MAX_LENGTH)>>)
              /\ h_routed' = [h_routed EXCEPT ![w] =
                                  [invoked |-> h_called[w], counted |-> "failure",
                                   dir |-> FailureDir(h_cfg)]]
              /\ h_pc' = [h_pc EXCEPT ![w] = "scan"]
         ELSE /\ h_routed' = [h_routed EXCEPT ![w] =
                                  [invoked |-> h_called[w], counted |-> "failure",
                                   dir |-> "none"]]
              /\ h_pc' = [h_pc EXCEPT ![w] = "raised"]
              /\ UNCHANGED h_fs
    /\ h_held' = [h_held EXCEPT ![w] = <<>>]
    /\ UNCHANGED <<h_cfg, h_workers, h_todo, h_path, h_success, h_polls,
                   h_acquired, h_invoked, h_called>>
    /\ UNCHANGED <<engine_vars, write_vars, xml_vars, parts_vars, proc_vars, util_vars>>

\* The loop is over: process_once returns, and _run_loop sleeps
EndPoll(w) ==
    /\ w \in h_workers
    /\ h_pc[w] = "scan"
    /\ h_todo[w] = <<>>
    /\ h_pc' = [h_pc EXCEPT ![w] = "idle"]
    /\ UNCHANGED <<h_cfg, h_fs, h_workers, h_todo, h_path, h_success, h_failure,
                   h_last, h_polls, h_acquired, h_held, h_invoked, h_called, h_routed>>
    /\ UNCHANGED <<engine_vars, write_vars, xml_vars, parts_vars, proc_vars, util_vars>>

\* The files that may lie in input_dir: name and what the file holds
HotNames ==
    { <<"a", ".", "t", "x", "t">>,
      <<"b", ".", "d", "o", "c", "x">>, <<"c", ".", "p", "d", "f">>,
      <<"a", ".", "t", "m", "p">> }

KindsOf(name) ==
    IF Suffix(name) = DOCX_SUFFIX THEN {"docx", "junk"}
    ELSE IF name = <<"a", ".", "t", "x", "t">> THEN {"text", "huge"}
    ELSE {"text"}

Configs ==
    [enabled : BOOLEAN, processed_dir : BOOLEAN, error_dir : BOOLEAN,
     file_types : {{"docx", "txt"}, {"docx"}}]

InitHot ==
    /\ IdleEngine
    /\ IdleWrite
    /\ IdleXml
    /\ IdleParts
    /\ IdleProc
    /\ IdleUtil
    /\ h_cfg \in Configs
    /\ h_workers \in {{1}, {1, 2}}
    /\ \E names \in SUBSET HotNames :
          /\ Cardinality(names) <= MaxFiles
          /\ \E kinds \in [names -> {"text", "huge", "docx", "junk"}] :
                /\ \A n \in names : kinds[n] \in KindsOf(n)
                /\ h_fs = [p \in {<<INPUT_DIR, n>> : n \in names} |->
                              HotFile(p[2], kinds[p[2]])]
    /\ h_pc = [w \in Workers |-> "idle"]
    /\ h_todo = [w \in Workers |-> <<>>]
    /\ h_path = [w \in Workers |-> <<>>]
    /\ h_success = [w \in Workers |-> 0]
    /\ h_failure = [w \in Workers |-> 0]
    /\ h_last = [w \in Workers |-> <<>>]
    /\ h_polls = [w \in Workers |-> 0]
    /\ h_acquired = [w \in Workers |-> 0]
    /\ h_held = [w \in Workers |-> <<>>]
    /\ h_invoked = <<>>
    /\ h_called = [w \in Workers |-> FALSE]
    /\ h_routed = [w \in Workers |-> NotRouted]

NextHot ==
    \E w \in Workers :
        \/ PollDisabled(w)
        \/ List(w)
        \/ Skip(w)
        \/ Acquire(w)
        \/ Validate(w)
        \/ Invoke(w)
        \/ Succeed(w)
        \/ Fail(w)
        \/ EndPoll(w)

SpecHot == InitHot /\ [][NextHot]_vars

-----------------------------------------------------------------------------
(* Properties of the hot folder *)

\* C14: of two workers polling the same input directory, no two hold the
\* same input file at once: a file one worker has acquired is not acquired by
\* the other before the first has finished with it and moved it.
C14_OneWorkerPerFile ==
    \A v, w \in h_workers :
        (v # w /\ h_pc[v] \in Holding /\ h_pc[w] \in Holding)
            => h_held[v] # h_held[w]

\* C15: under one worker and any configuration, over all its polls no input
\* file is taken by a processor again after a processor has taken it and
\* returned.
C15_ProcessedOnce ==
    h_workers = {1} => \A o \in DOMAIN h_invoked : h_invoked[o] <= 1

\* C16: under one worker, a file is counted in success_count only if a
\* processor took it after a successful validation and returned; a file no
\* processor took is counted in failure_count and goes to error_dir when there
\* is one; and when process_once has returned, success_count + failure_count
\* is the number of files acquired.
C16_SuccessOnlyAfterProcessor ==
    h_workers = {1} =>
        /\ h_routed[1].counted = "success" => h_routed[1].invoked
        /\ (h_routed[1].counted # "none" /\ ~h_routed[1].invoked) =>
              /\ h_routed[1].counted = "failure"
              /\ h_cfg.error_dir => h_routed[1].dir = ERROR_DIR
        /\ h_pc[1] = "idle" => h_success[1] + h_failure[1] = h_acquired[1]

=============================================================================
